---------------------------- MODULE Spec2Model ----------------------------
(***************************************************************************)
(* A model of XynClient's ExynosBridge (src/bridge.py) and of the erase    *)
(* branch of its command line (src/xyn_cli.py).                            *)
(*                                                                         *)
(* The bridge is a single-threaded object: every bulk transfer and every   *)
(* subprocess call blocks.  The model is the sequential program with a     *)
(* program counter: an API call starts in the state pc = "idle", runs      *)
(* through the steps of its code (one step per blocking exchange with the  *)
(* device or the external tool, whose outcome is drawn from a small set),  *)
(* and comes back to "idle" with its outcome in `last'.                    *)
(*                                                                         *)
(* Sizes of payloads and files are counted in KiB (1024 bytes): TLC's      *)
(* integers are 32 bits wide and the read ceiling is 16 GiB.               *)
(***************************************************************************)
EXTENDS Integers, Sequences, FiniteSets, TLC

(***************************************************************************)
(* Bounds of the model.                                                    *)
(***************************************************************************)
\* the largest `attempts' argument given to establish_session
MaxAttempts == 3
\* packets the device sends in one read before it goes silent
MaxPackets == 5
\* full 4096-byte chunks of PIT data the device sends before a short one
MaxPitChunks == 1

(***************************************************************************)
(* Program constants.                                                      *)
(***************************************************************************)
ODIN_MAGIC == "ODIN"
LOKE_MAGIC == "LOKE"
DEFAULT_ATTEMPTS == 3
SESSION_START == 101      \* 0x65
SESSION_END == 102        \* 0x66
FILE_TRANSFER == 103      \* 0x67
FILE_COMPLETE == 104      \* 0x68
GET_PIT == 105            \* 0x69
PARTITION_INFO == 112     \* 0x70
ERASE_PARTITION == 113    \* 0x71
REBOOT == 114             \* 0x72
\* 16 * 1024 * 1024 * 1024 bytes, in KiB
READ_CEILING == 16 * 1024 * 1024
\* 128 * 1024 bytes, in KiB
WRITE_BUFFER == 128
\* the largest payload a 32-bit length field announces (4 GiB - 1 KiB), in KiB
MaxPayload == 4 * 1024 * 1024 - 1
HEADER_LEN == 5
UNKNOWN_ID == -1          \* 0xFFFFFFFF as a 32-bit value
ETIMEDOUT == 110

\* Python's None, for the handle-like fields (device, interface, endpoints)
None == "None"

(***************************************************************************)
(* Text.  Python strings are TLA+ strings; the helpers compute what the    *)
(* str methods used by the code compute.                                   *)
(***************************************************************************)

LowerChar(c) ==
    CASE c = "A" -> "a" [] c = "B" -> "b" [] c = "C" -> "c" [] c = "D" -> "d"
      [] c = "E" -> "e" [] c = "F" -> "f" [] c = "G" -> "g" [] c = "H" -> "h"
      [] c = "I" -> "i" [] c = "J" -> "j" [] c = "K" -> "k" [] c = "L" -> "l"
      [] c = "M" -> "m" [] c = "N" -> "n" [] c = "O" -> "o" [] c = "P" -> "p"
      [] c = "Q" -> "q" [] c = "R" -> "r" [] c = "S" -> "s" [] c = "T" -> "t"
      [] c = "U" -> "u" [] c = "V" -> "v" [] c = "W" -> "w" [] c = "X" -> "x"
      [] c = "Y" -> "y" [] c = "Z" -> "z" [] OTHER -> c

\* s.lower(), the first n characters of s done
RECURSIVE LowerFrom(_, _)
LowerFrom(s, n) ==
    IF n >= Len(s) THEN ""
    ELSE LowerChar(SubSeq(s, n + 1, n + 1)) \o LowerFrom(s, n + 1)

Lower(s) == LowerFrom(s, 0)

\* sub in s
Contains(s, sub) ==
    \E i \in 1..(Len(s) - Len(sub) + 1) : SubSeq(s, i, i + Len(sub) - 1) = sub

\* s.startswith(prefix)
StartsWith(s, prefix) ==
    /\ Len(s) >= Len(prefix)
    /\ SubSeq(s, 1, Len(prefix)) = prefix

IsSpace(c) == c = " "

RECURSIVE LStrip(_)
LStrip(s) ==
    IF Len(s) > 0 /\ IsSpace(SubSeq(s, 1, 1))
    THEN LStrip(SubSeq(s, 2, Len(s)))
    ELSE s

RECURSIVE RStrip(_)
RStrip(s) ==
    IF Len(s) > 0 /\ IsSpace(SubSeq(s, Len(s), Len(s)))
    THEN RStrip(SubSeq(s, 1, Len(s) - 1))
    ELSE s

\* s.strip()
Strip(s) == RStrip(LStrip(s))

(***************************************************************************)
(* The bulk transport.  A transfer either succeeds or raises a USBError    *)
(* carrying an errno and the backend's text; str(e) is                     *)
(* "[Errno <errno>] <text>".  A timeout is errno 110 (as download_pit      *)
(* tests it); the text of a timeout is the backend's: libusb-1.0 says      *)
(* "Operation timed out", libusb-win32 says "timeout error".               *)
(***************************************************************************)
USBErrors ==
    { [errno |-> ETIMEDOUT, strerror |-> "Operation timed out"],
      [errno |-> ETIMEDOUT, strerror |-> "timeout error"],
      [errno |-> 32,        strerror |-> "Pipe error"] }

\* str(e)
StrError(e) == "[Errno " \o ToString(e.errno) \o "] " \o e.strerror

IsUSBTimeout(e) == e.errno = ETIMEDOUT

\* "timeout" in str(e).lower()
SaysTimeout(msg) == LET low == Lower(msg) IN Contains(low, "timeout")

\* what a device may answer to the 4-byte host magic
Replies == { "LOKE", "LOKE0001", "ODIN", "LOK", "" }

\* partition names callers ask for
Names == { "boot", "BOOT", "oem" }

(***************************************************************************)
(* The devices on the bus.  devA enumerates with a known download-mode     *)
(* product id; devB is a same-vendor device with an unknown product id.    *)
(***************************************************************************)
Devices == { "devA", "devB" }
KnownPid(d) == d = "devA"
\* the interface number and endpoint addresses of a device's bulk interface
BulkInterface == "if0"
BulkIn == "ep81"
BulkOut == "ep02"


(***************************************************************************)
(* State.                                                                  *)
(***************************************************************************)
VARIABLES
    \* ExynosBridge
    dev, interface, in_ep, out_ep, detached_kernel, session_established,
    \* PartitionManager
    partitions, layout_detected,
    \* the host: is heimdall on the PATH, the interfaces this process holds
    \* claimed, the file at the read's out_file
    heimdall, claimed, outfile,
    \* control: the position in the running call, the call and its locals,
    \* the command-line run in progress
    pc, call, fr, cli,
    \* history of the running call, kept until its caller has taken the
    \* result: the transport writes, the number of reads _receive_packet
    \* made, the heimdall commands run, the outcome
    wire, reads, tools, last,
    \* the device that answered the last handshake with the reply magic,
    \* until a session end is written or the bridge disconnects
    hs_dev,
    \* history of the running call: its calls on the device's interface
    \* (kernel-driver detach, claim, session-end write, release, reattach)
    usb,
    \* the devices whose kernel driver this bridge detached, until it
    \* disconnects
    detached

bridgeVars == <<dev, interface, in_ep, out_ep, detached_kernel, session_established>>
catalogVars == <<partitions, layout_detected>>
envVars == <<heimdall, claimed, outfile, usb, detached>>
ctlVars == <<pc, call, fr, cli>>
ghostVars == <<wire, reads, tools, last, hs_dev>>
vars == <<bridgeVars, catalogVars, envVars, ctlVars, ghostVars>>

\* a transport write as the history records it: a packet's command and what
\* its payload carries, or (cmd = 0) the raw bytes written
Wrote(cmd, tag, a, b) == [cmd |-> cmd, tag |-> tag, a |-> a, b |-> b]
WroteMagic == Wrote(0, ODIN_MAGIC, 0, 0)

NoCall == [op |-> "none", name |-> "", force |-> FALSE, n |-> 0]
\* (raw: control went past the operation's call of the external tool; arg,
\* res: what a parser was given and the list it returned, <<>> before it ran;
\* tmp: the temporary files the call made, and those of them that are left)
NoFrame ==
    [ attempt |-> 0, attempts |-> 0, hs_cont |-> "", hs_exc |-> "",
      dt_cont |-> "", rx_cont |-> "", rx_cmd |-> 0, rx_len |-> 0,
      total_received |-> 0, npackets |-> 0, partition_id |-> 0,
      file_size |-> 0, total_sent |-> 0, sleeps |-> 0,
      rx_expected |-> 0, ev |-> "", rxlog |-> <<>>, replies |-> <<>>,
      pit_len |-> 0, raw |-> FALSE, arg |-> <<>>, res |-> <<>>,
      tmp |-> [made |-> {}, left |-> {}] ]
NoCli == [stage |-> "none", typed |-> "", name |-> "", code |-> 0]
NoLast == [op |-> "none", name |-> "", force |-> FALSE, n |-> 0, ret |-> "", exc |-> ""]
\* a file: whether it exists, who wrote it, and the sizes of the pieces
\* written to it, in order
NoFile == [exists |-> FALSE, by |-> "", data |-> <<>>]

Init ==
    /\ dev = None /\ interface = None /\ in_ep = None /\ out_ep = None
    /\ detached_kernel = FALSE
    /\ session_established = FALSE
    /\ partitions = <<>>
    /\ layout_detected = FALSE
    /\ heimdall \in BOOLEAN
    /\ claimed = {}
    /\ usb = <<>> /\ detached = {}
    /\ outfile = NoFile
    /\ pc = "idle" /\ call = NoCall /\ fr = NoFrame /\ cli = NoCli
    /\ wire = <<>> /\ reads = 0 /\ tools = <<>> /\ last = NoLast
    /\ hs_dev = None

(***************************************************************************)
(* Entering and leaving a call.                                            *)
(***************************************************************************)
\* a caller is free to call a public method
Idle == pc = "idle" /\ cli.stage = "none"

\* the call's record and its empty history
Enter(op, name, force, n) ==
    call' = [op |-> op, name |-> name, force |-> force, n |-> n]

Outcome(c, ret, exc) ==
    [op |-> c.op, name |-> c.name, force |-> c.force, n |-> c.n, ret |-> ret, exc |-> exc]

\* the call c returns ret ("True", "False", "None") or raises ("raise", with
\* the leading text of the exception): control is back with the caller
Leave(c, ret, exc) ==
    /\ last' = Outcome(c, ret, exc)
    /\ pc' = "returned"

\* control stays inside the running call
Goto(label) ==
    /\ pc' = label
    /\ last' = last

\* the caller has taken the result; the file system is the host's, and the
\* model does not follow the output file past the call that wrote it
Return ==
    /\ pc = "returned"
    /\ cli.stage = "none"
    /\ pc' = "idle"
    /\ call' = NoCall /\ fr' = NoFrame /\ last' = NoLast
    /\ wire' = <<>> /\ reads' = 0 /\ tools' = <<>>
    /\ outfile' = NoFile
    /\ usb' = <<>>
    /\ UNCHANGED <<bridgeVars, catalogVars, heimdall, claimed, detached, cli, hs_dev>>

(***************************************************************************)
(* Connection management.  find_device, open_and_claim and disconnect make *)
(* a bounded number of exchanges: each is computed from the bridge's       *)
(* fields b and the outcomes of its exchanges.                             *)
(***************************************************************************)
Bridge ==
    [ dev |-> dev, interface |-> interface, in_ep |-> in_ep, out_ep |-> out_ep,
      detached_kernel |-> detached_kernel,
      session_established |-> session_established ]

SetBridge(b) ==
    /\ dev' = b.dev
    /\ interface' = b.interface
    /\ in_ep' = b.in_ep
    /\ out_ep' = b.out_ep
    /\ detached_kernel' = b.detached_kernel
    /\ session_established' = b.session_established

\* what get_active_configuration shows: an interface with a bulk IN and a
\* bulk OUT endpoint, none, or an error
Configs == { "bulk", "nobulk", "error" }

\* how a handshake exchange goes: the write raises ("wfail"), the read
\* raises ("rfail"), or the device's reply is read.  A write on an endpoint
\* that was never set up raises.
Exchanges(ep) ==
    IF ep = None THEN { [how |-> "wfail", data |-> ""] }
    ELSE { [how |-> "wfail", data |-> ""], [how |-> "rfail", data |-> ""] }
         \cup { [how |-> "reply", data |-> r] : r \in Replies }

\* _setup_endpoints: the first alternate setting with both endpoints
setup_endpoints(b, cfg) ==
    IF cfg = "bulk"
    THEN [b EXCEPT !.interface = BulkInterface, !.in_ep = BulkIn, !.out_ep = BulkOut]
    ELSE b

\* _test_odin_mode: the throwaway handshake, x its exchange
test_odin_mode(b, x) ==
    [ ret   |-> x.how = "reply" /\ StartsWith(x.data, LOKE_MAGIC),
      wire  |-> <<WroteMagic>> ]

\* the probes find_device may make: none when the configuration cannot be
\* read, else one exchange
Probes(b) ==
    { [cfg |-> "error", x |-> [how |-> "wfail", data |-> ""]] }
    \cup { [cfg |-> c, x |-> x] : c \in {"bulk"}, x \in Exchanges(BulkOut) }
    \cup { [cfg |-> c, x |-> x] : c \in {"nobulk"}, x \in Exchanges(b.out_ep) }

\* find_device, with `present' the devices on the bus and p the probe of a
\* device whose product id is not known
find_device(b, present, p) ==
    IF \E d \in present : KnownPid(d)
    THEN [ b |-> [b EXCEPT !.dev = CHOOSE d \in present : KnownPid(d)],
           ret |-> TRUE, wire |-> <<>> ]
    ELSE IF present = {}
    THEN [b |-> b, ret |-> FALSE, wire |-> <<>>]
    ELSE LET d  == CHOOSE x \in present : TRUE
             b1 == [b EXCEPT !.dev = d]
         IN  IF p.cfg = "error"
             THEN [b |-> b1, ret |-> FALSE, wire |-> <<>>]
             ELSE LET b2 == setup_endpoints(b1, p.cfg)
                      t  == test_odin_mode(b2, p.x)
                  IN  [b |-> b2, ret |-> t.ret, wire |-> t.wire]

\* a call on the interface of device d as the history records it: whether
\* it went through, and (for a release) whether this process held the
\* interface claimed, (for a reattachment) whether this bridge had detached
\* the kernel driver of d
Usb(what, d, ok, mine) == [call |-> what, dev |-> d, ok |-> ok, mine |-> mine]

\* open_and_claim, with C the interfaces this process holds, what the
\* configuration shows, whether a kernel driver is bound to the interface
\* and its detachment goes through, and whether the claim goes through
open_and_claim(b, C, cfg, detach, claim_ok) ==
    IF b.dev = None
    THEN [b |-> b, C |-> C, exc |-> "No device to open", usb |-> <<>>, det |-> {}]
    ELSE IF cfg = "error"
    THEN [b |-> b, C |-> C, exc |-> "open_and_claim failed", usb |-> <<>>, det |-> {}]
    ELSE IF cfg = "nobulk"
    THEN [b |-> b, C |-> C, exc |-> "open_and_claim failed", usb |-> <<>>, det |-> {}]
    ELSE LET b1 == setup_endpoints(b, cfg)
             b2 == [b1 EXCEPT !.detached_kernel = IF detach THEN TRUE ELSE @]
             u  == (IF detach THEN <<Usb("detach", b.dev, TRUE, TRUE)>> ELSE <<>>)
                   \o <<Usb("claim", b.dev, claim_ok, TRUE)>>
             d  == IF detach THEN {b.dev} ELSE {}
         IN  IF claim_ok
             THEN [b |-> b2, C |-> C \cup {b.dev}, exc |-> "", usb |-> u, det |-> d]
             ELSE [b |-> b2, C |-> C, exc |-> "open_and_claim failed", usb |-> u, det |-> d]

\* (mutant) the flag left set after the write
end_session_kept(b, w) ==
    [ b |-> b, ret |-> ~b.session_established \/ w,
      wire |-> IF b.session_established
               THEN <<Wrote(SESSION_END, "byte", 0, 0)>> ELSE <<>> ]

\* _end_session, with w whether its write goes through
end_session(b, w) ==
    IF ~b.session_established
    THEN [b |-> b, ret |-> TRUE, wire |-> <<>>]
    ELSE IF w
    THEN [ b |-> [b EXCEPT !.session_established = FALSE], ret |-> TRUE,
           wire |-> <<Wrote(SESSION_END, "byte", 0, 0)>> ]
    ELSE [b |-> b, ret |-> FALSE, wire |-> <<Wrote(SESSION_END, "byte", 0, 0)>>]

ClearedBridge ==
    [ dev |-> None, interface |-> None, in_ep |-> None, out_ep |-> None,
      detached_kernel |-> FALSE, session_established |-> FALSE ]

\* the guard of the release in disconnect
releasable(b) == b.dev # None /\ b.interface # None

\* (mutant) the reattachment attempted after every release
reattachable_always(b) == TRUE

\* the guard of the reattachment in disconnect, inside that of the release
reattachable(b) == b.detached_kernel

\* (mutant) the fields reset only where an interface was released
disconnect_held(b, C, D, w, release_ok, attach_ok) ==
    LET es == end_session(b, w)
        held == releasable(b)
    IN  [ b |-> IF held THEN ClearedBridge ELSE es.b,
          C |-> IF held /\ release_ok THEN C \ {b.dev} ELSE C,
          wire |-> es.wire,
          usb |-> <<>> ]

\* disconnect, with C the interfaces this process holds, D the devices whose
\* kernel driver this bridge detached, and whether the session-end write,
\* the release and the reattachment go through
disconnect(b, C, D, w, release_ok, attach_ok) ==
    LET es == end_session(b, w)
        held == releasable(b)
        u1 == IF b.session_established
              THEN <<Usb("write", b.dev, w, TRUE)>> ELSE <<>>
        u2 == IF held
              THEN <<Usb("release", b.dev, release_ok, b.dev \in C)>> ELSE <<>>
        u3 == IF held /\ reattachable(b)
              THEN <<Usb("attach", b.dev, attach_ok, b.dev \in D)>> ELSE <<>>
    IN  [ b |-> ClearedBridge,
          C |-> IF held /\ release_ok THEN C \ {b.dev} ELSE C,
          wire |-> es.wire,
          usb |-> u1 \o u2 \o u3 ]

\* whether a write on endpoint ep may go through, may raise
WriteResults(ep) == IF ep = None THEN {FALSE} ELSE BOOLEAN


FindDevice ==
    /\ Idle
    /\ \E present \in SUBSET Devices, p \in Probes(Bridge) :
        LET res == find_device(Bridge, present, p) IN
        /\ Enter("find_device", "", FALSE, 0)
        /\ SetBridge(res.b)
        /\ wire' = res.wire /\ reads' = 0 /\ tools' = <<>>
        /\ Leave(call', IF res.ret THEN "True" ELSE "False", "")
        /\ UNCHANGED <<catalogVars, envVars, fr, cli, hs_dev>>

OpenAndClaim ==
    /\ Idle
    /\ \E cfg \in Configs, detach \in BOOLEAN, claim_ok \in BOOLEAN :
        LET res == open_and_claim(Bridge, claimed, cfg, detach, claim_ok) IN
        /\ Enter("open_and_claim", "", FALSE, 0)
        /\ SetBridge(res.b)
        /\ claimed' = res.C
        /\ usb' = res.usb
        /\ detached' = detached \cup res.det
        /\ wire' = <<>> /\ reads' = 0 /\ tools' = <<>>
        /\ Leave(call', IF res.exc = "" THEN "None" ELSE "raise", res.exc)
        /\ UNCHANGED <<catalogVars, heimdall, outfile, fr, cli, hs_dev>>

EndSession ==
    /\ Idle
    /\ \E w \in WriteResults(out_ep) :
        LET res == end_session(Bridge, w) IN
        /\ Enter("_end_session", "", FALSE, 0)
        /\ SetBridge(res.b)
        /\ wire' = res.wire /\ reads' = 0 /\ tools' = <<>>
        /\ hs_dev' = IF res.wire # <<>> /\ w THEN None ELSE hs_dev
        /\ Leave(call', IF res.ret THEN "True" ELSE "False", "")
        /\ UNCHANGED <<catalogVars, envVars, fr, cli>>

\* disconnect, called by a caller of the bridge
Disconnect ==
    /\ Idle
    /\ \E w \in WriteResults(out_ep), release_ok \in BOOLEAN, attach_ok \in BOOLEAN :
        LET res == disconnect(Bridge, claimed, detached, w, release_ok, attach_ok) IN
        /\ Enter("disconnect", "", FALSE, 0)
        /\ SetBridge(res.b)
        /\ claimed' = res.C
        /\ usb' = res.usb
        /\ detached' = {}
        /\ wire' = res.wire /\ reads' = 0 /\ tools' = <<>>
        /\ hs_dev' = None
        /\ Leave(call', "None", "")
        /\ UNCHANGED <<catalogVars, heimdall, outfile, fr, cli>>

(***************************************************************************)
(* establish_session: the handshake loop, one step per attempt.            *)
(***************************************************************************)
\* control enters establish_session(attempts); when it returns control goes
\* on at cont, and a raise is handled as exc says
HandshakeFrame(f, attempts, cont, exc) ==
    [f EXCEPT !.attempt = 0, !.attempts = attempts, !.hs_cont = cont, !.hs_exc = exc,
              !.sleeps = 0, !.replies = <<>>]

\* establish_session returned True
HandshakeReturn ==
    IF fr.hs_cont = "return" THEN Leave(call, "True", "") ELSE Goto(fr.hs_cont)

\* establish_session raised: the exception leaves the call ("propagate"),
\* or reboot_device turns it into False, or the caller's handler runs
RaiseAs(exc, msg) ==
    CASE exc = "propagate" -> Leave(call, "raise", msg)
      [] exc = "reboot"    -> Leave(call, "False", "")
      [] OTHER             -> Goto(exc)

HandshakeRaise(msg) == RaiseAs(fr.hs_exc, msg)

\* (mutant) the reply compared for equality with the magic
handshake_ok_exact(x) == x.how = "reply" /\ x.data = LOKE_MAGIC

\* resp_b.startswith(LOKE_MAGIC), for an exchange that read a reply
handshake_ok(x) == x.how = "reply" /\ StartsWith(x.data, LOKE_MAGIC)

\* history: the device's reply was read and its first 4 bytes are "LOKE"
RepliedWithMagic(x) ==
    /\ x.how = "reply"
    /\ Len(x.data) >= 4
    /\ \A i \in 1..4 : SubSeq(x.data, i, i) = SubSeq("LOKE", i, i)

\* one pass of the loop body: write the magic, read the reply, compare; an
\* exception is logged and followed by the delay
HandshakeAttempt ==
    /\ pc = "hs"
    /\ fr.attempt < fr.attempts
    /\ \E x \in Exchanges(out_ep) :
        /\ wire' = Append(wire, WroteMagic)
        /\ hs_dev' = IF RepliedWithMagic(x) THEN dev ELSE hs_dev
        /\ IF handshake_ok(x)
           THEN /\ session_established' = TRUE
                /\ fr' = IF fr.hs_cont = "return"
                         THEN [fr EXCEPT !.replies = Append(@, RepliedWithMagic(x))]
                         ELSE HandshakeFrame(fr, 0, "", "")
                /\ HandshakeReturn
           ELSE /\ UNCHANGED session_established
                /\ fr' = [fr EXCEPT !.attempt = @ + 1,
                                    !.sleeps = IF x.how = "reply" THEN @ ELSE @ + 1,
                                    !.replies = Append(@, RepliedWithMagic(x))]
                /\ Goto("hs")
    /\ UNCHANGED <<dev, interface, in_ep, out_ep, detached_kernel>>
    /\ UNCHANGED <<catalogVars, envVars, call, cli, reads, tools>>

\* the loop ran out of attempts
HandshakeExhausted ==
    /\ pc = "hs"
    /\ fr.attempt >= fr.attempts
    /\ HandshakeRaise("Handshake failed (device may not be in Download/Odin mode)")
    /\ fr' = IF fr.hs_exc \in {"propagate", "reboot"} THEN fr
             ELSE HandshakeFrame(fr, 0, "", "")
    /\ UNCHANGED <<bridgeVars, catalogVars, envVars, call, cli, wire, reads, tools, hs_dev>>

\* establish_session(attempts), called by a caller of the bridge
EstablishSession ==
    /\ Idle
    /\ \E n \in 0..MaxAttempts :
        /\ Enter("establish_session", "", FALSE, n)
        /\ wire' = <<>> /\ reads' = 0 /\ tools' = <<>>
        /\ IF dev = None
           THEN /\ Leave(call', "raise", "Device not connected")
                /\ fr' = fr
           ELSE /\ fr' = HandshakeFrame(NoFrame, n, "return", "propagate")
                /\ Goto("hs")
        /\ UNCHANGED <<bridgeVars, catalogVars, envVars, cli, hs_dev>>

\* connect: find_device and open_and_claim, then control is in
\* establish_session; c is the call's record
connect(c, present, p, cfg, detach, claim_ok) ==
    LET found  == find_device(Bridge, present, p)
        opened == open_and_claim(found.b, claimed, cfg, detach, claim_ok)
    IN
    /\ call' = c
    /\ wire' = found.wire /\ reads' = 0 /\ tools' = <<>>
    /\ IF ~found.ret
       THEN /\ SetBridge(found.b)
            /\ UNCHANGED <<claimed, usb, detached, fr>>
            /\ Leave(c, "raise", "No Exynos device found in ODIN mode")
       ELSE /\ SetBridge(opened.b)
            /\ claimed' = opened.C
            /\ usb' = opened.usb
            /\ detached' = detached \cup opened.det
            /\ IF opened.exc # ""
               THEN /\ fr' = fr
                    /\ Leave(c, "raise", opened.exc)
               ELSE /\ fr' = HandshakeFrame(NoFrame, DEFAULT_ATTEMPTS, "return", "propagate")
                    /\ Goto("hs")

\* `if not self.session_established: self.establish_session()', then on at
\* cont
EnsureSession(cont, exc) ==
    IF session_established
    THEN /\ fr' = fr
         /\ Goto(cont)
    ELSE IF dev = None
    THEN /\ fr' = fr
         /\ RaiseAs(exc, "Device not connected")
    ELSE /\ fr' = HandshakeFrame(fr, DEFAULT_ATTEMPTS, cont, exc)
         /\ Goto("hs")

\* connect, called by a caller whose bridge holds no device
Connect ==
    /\ Idle
    /\ dev = None
    /\ \E present \in SUBSET Devices, p \in Probes(Bridge), cfg \in Configs,
       detach \in BOOLEAN, claim_ok \in BOOLEAN :
        /\ connect([op |-> "connect", name |-> "", force |-> FALSE, n |-> 0],
                   present, p, cfg, detach, claim_ok)
        /\ UNCHANGED <<catalogVars, heimdall, outfile, cli, hs_dev>>

(***************************************************************************)
(* The partition catalog.                                                  *)
(***************************************************************************)
\* Partition(name, length, id): the name is lowercased; an optional field
\* is <<>> (None) or <<v>>
Partition(name, length, id) == [name |-> Lower(name), length |-> length, id |-> id]

\* {p.name: p for p in parts}: a later partition replaces an earlier one of
\* the same name
catalog(parts) ==
    [ n \in { parts[i].name : i \in 1..Len(parts) } |->
        LET last_i == CHOOSE i \in 1..Len(parts) :
                        /\ parts[i].name = n
                        /\ \A j \in (i + 1)..Len(parts) : parts[j].name # n
        IN  parts[last_i] ]

\* the list substituted when nothing was detected
CommonList ==
    LET common_parts == <<"boot", "recovery", "system", "userdata", "cache", "modem">>
    IN  [i \in 1..Len(common_parts) |-> Partition(common_parts[i], <<>>, <<>>)]

\* the static name -> id table
common_map ==
    [ n \in {"boot", "recovery", "system", "userdata", "cache", "modem", "radio",
             "efs", "param", "dtb", "dtbo", "vbmeta", "misc"} |->
        CASE n = "boot" -> 1 [] n = "recovery" -> 2 [] n = "system" -> 3
          [] n = "userdata" -> 4 [] n = "cache" -> 5 [] n = "modem" -> 6
          [] n = "radio" -> 6 [] n = "efs" -> 7 [] n = "param" -> 8
          [] n = "dtb" -> 9 [] n = "dtbo" -> 10 [] n = "vbmeta" -> 11
          [] n = "misc" -> 12 ]

\* (mutant) a name that is not in the catalog resolved all the same
get_partition_any(parts, name) ==
    IF Lower(name) \in DOMAIN parts THEN <<parts[Lower(name)]>>
    ELSE <<Partition(name, <<>>, <<>>)>>

\* self.partitions.get(name.lower()): <<>> or <<p>>
get_partition(parts, name) ==
    IF Lower(name) \in DOMAIN parts THEN <<parts[Lower(name)]>> ELSE <<>>

\* (mutant) a name of neither table given the identifier 0
guess_partition_identifier_zero(parts, name) ==
    LET p == get_partition(parts, name) IN
    IF p # <<>> /\ p[1].id # <<>> THEN p[1].id[1]
    ELSE IF Lower(name) \in DOMAIN common_map THEN common_map[Lower(name)]
    ELSE 0

\* guess_partition_identifier, on a catalog that is not empty
guess_partition_identifier(parts, name) ==
    LET p == get_partition(parts, name) IN
    IF p # <<>> /\ p[1].id # <<>> THEN p[1].id[1]
    ELSE IF Lower(name) \in DOMAIN common_map THEN common_map[Lower(name)]
    ELSE UNKNOWN_ID

(***************************************************************************)
(* PitParser._parse_text.  The text is the sequence of its lines           *)
(* (text.splitlines()).  A regular expression of the parser has the shape  *)
(* key \s* opt? ([chars]+), key one of several alternatives: Search gives   *)
(* the group of the leftmost match, as re.search does.                     *)
(***************************************************************************)
NameChars == "ABCDEFGHIJKLMNOPQRSTUVWXYZabcdefghijklmnopqrstuvwxyz0123456789_-"

\* s[i:].startswith(key), i counted from 1
StartsAt(s, i, key) ==
    /\ i >= 1
    /\ i + Len(key) - 1 <= Len(s)
    /\ SubSeq(s, i, i + Len(key) - 1) = key

\* the index after the longest run of characters of `chars' from s[i] on
RECURSIVE RunEnd(_, _, _)
RunEnd(s, i, chars) ==
    IF i <= Len(s) /\ Contains(chars, SubSeq(s, i, i))
    THEN RunEnd(s, i + 1, chars)
    ELSE i

\* re.search(r"(?:k1|k2|..):\s*(?:opt)?([chars]+)", line): <<group>> of the
\* leftmost match (at one position the first alternative that matches; the
\* optional part is taken when the group can follow it), <<>> for no match
Search(line, keys, opts, chars) ==
    LET Group(from) == SubSeq(line, from, RunEnd(line, from, chars) - 1)
        \* the match attempted at position i with alternative k
        At(i, k) ==
            IF ~StartsAt(line, i, keys[k]) THEN <<>>
            ELSE LET j == RunEnd(line, i + Len(keys[k]), " ")
                     taken == { o \in opts : StartsAt(line, j, o)
                                             /\ Group(j + Len(o)) # "" }
                 IN  IF taken # {}
                     THEN <<Group(j + Len(CHOOSE o \in taken : TRUE))>>
                     ELSE IF Group(j) # "" THEN <<Group(j)>>
                     ELSE <<>>
        hits == { <<i, k>> \in (1..Len(line)) \X (1..Len(keys)) : At(i, k) # <<>> }
    IN  IF hits = {} THEN <<>>
        ELSE LET first == CHOOSE h \in hits :
                            \A g \in hits : h[1] < g[1] \/ (h[1] = g[1] /\ h[2] <= g[2])
             IN  At(first[1], first[2])

\* int(digits, base): <<value>>, or <<>> for the ValueError
RECURSIVE ParseInt(_, _)
ParseInt(digits, base) ==
    IF digits = "" THEN <<>>
    ELSE LET c   == Lower(SubSeq(digits, Len(digits), Len(digits)))
             v   == (CHOOSE i \in 1..16 : SubSeq("0123456789abcdef", i, i) = c) - 1
             pre == SubSeq(digits, 1, Len(digits) - 1)
             hi  == IF pre = "" THEN <<0>> ELSE ParseInt(pre, base)
         IN  IF v >= base \/ hi = <<>> THEN <<>> ELSE <<hi[1] * base + v>>

\* the loop body of _parse_text: the locals st after the line `raw'
text_line(st, raw) ==
    LET line == Strip(raw)
        st1  == IF Contains(line, "Partition #") \/ Contains(line, "Entry #")
                THEN [ parts |-> IF st.current_part # <<>>
                                 THEN Append(st.parts, st.current_part[1])
                                 ELSE st.parts,
                       current_part |-> <<>>, name |-> <<>>, size |-> <<>>, pid |-> <<>> ]
                ELSE st
        m     == Search(line, <<"Name:">>, {"'", "\""}, NameChars)
        msize == Search(line, <<"Size:">>, {"0x"}, "0123456789ABCDEFabcdef")
        mid   == Search(line, <<"Identifier:", "Id:", "ID:">>, {}, "0123456789")
    IN  IF m # <<>> THEN [st1 EXCEPT !.name = <<Lower(m[1])>>]
        ELSE IF msize # <<>>
        THEN LET v == ParseInt(msize[1], IF Contains(Lower(line), "0x") THEN 16 ELSE 10)
             IN  IF v # <<>> THEN [st1 EXCEPT !.size = v] ELSE st1
        ELSE IF mid # <<>>
        THEN LET v == ParseInt(mid[1], 10)
             IN  IF v # <<>> THEN [st1 EXCEPT !.pid = v] ELSE st1
        ELSE st1

\* _parse_text(text): after the loop the record in progress is appended
parse_text(lines) ==
    LET RECURSIVE text_lines(_)
        \* the locals after the first n lines
        text_lines(n) ==
            IF n = 0
            THEN [ parts |-> <<>>, current_part |-> <<>>,
                   name |-> <<>>, size |-> <<>>, pid |-> <<>> ]
            ELSE text_line(text_lines(n - 1), lines[n])
        st == text_lines(Len(lines))
    IN  IF st.name # <<>>
        THEN Append(st.parts, Partition(st.name[1], st.size, st.pid))
        ELSE st.parts

(***************************************************************************)
(* PitParser.parse_heuristic.  A blob is the sequence of its bytes.  The   *)
(* bytes of the blobs the model parses are below 0x80, so that a 4-byte    *)
(* little-endian word is below 2^31.                                       *)
(***************************************************************************)
\* the bytes of [A-Za-z0-9_\-]
TokenBytes == (48..57) \cup (65..90) \cup (97..122) \cup {95, 45}

\* bytes([b]).decode('ascii'), for a byte of a token
Chr(b) ==
    CASE b \in 65..90  -> SubSeq(NameChars, b - 64, b - 64)
      [] b \in 97..122 -> SubSeq(NameChars, b - 70, b - 70)
      [] b \in 48..57  -> SubSeq(NameChars, b + 5, b + 5)
      [] b = 95        -> "_"
      [] b = 45        -> "-"

\* s.encode('ascii'), for a string of token characters
Encode(s) == [i \in 1..Len(s) |-> CHOOSE b \in TokenBytes : Chr(b) = SubSeq(s, i, i)]

\* t.decode('ascii'), for a token
RECURSIVE Decode(_)
Decode(t) == IF t = <<>> THEN "" ELSE Chr(Head(t)) \o Decode(Tail(t))

\* pit_bytes.find(pattern): the offset, from 0, of its first occurrence, or -1
Find(blob, pattern) ==
    LET hits == { i \in 0..(Len(blob) - Len(pattern)) :
                    SubSeq(blob, i + 1, i + Len(pattern)) = pattern }
    IN  IF hits = {} THEN -1 ELSE CHOOSE i \in hits : \A j \in hits : i <= j

\* the names parse_heuristic looks for, in its order
common_partitions ==
    << "boot", "recovery", "system", "userdata", "cache", "modem",
       "radio", "efs", "param", "dtb", "dtbo", "vbmeta", "misc",
       "logo", "cp", "aboot", "sbl", "rpm", "tz", "hyp", "lk",
       "bootloader", "pit", "hidden", "metadata" >>

\* the size found near offset idx: the first word, among the 4-byte
\* little-endian words at offsets 0, 4, 8, .. below len - 4 of the window
\* pit_bytes[max(0, idx-64) : min(len, idx+256)], with 0x1000 <= val (every
\* 4-byte word meets the upper limit 0x100000000); <<>> for None
size_near(blob, idx) ==
    LET lo  == IF idx - 64 > 0 THEN idx - 64 ELSE 0
        hi  == IF Len(blob) < idx + 256 THEN Len(blob) ELSE idx + 256
        search_window == SubSeq(blob, lo + 1, hi)
        val(i) == search_window[i + 1] + 256 * search_window[i + 2]
                  + 65536 * search_window[i + 3] + 16777216 * search_window[i + 4]
        sizes == { i \in 0..(Len(search_window) - 5) : i % 4 = 0 /\ val(i) >= 4096 }
    IN  IF sizes = {} THEN <<>>
        ELSE <<val(CHOOSE i \in sizes : \A j \in sizes : i <= j)>>

\* the byte patterns a name is looked for by: name\0, \0name\0, NAME\0
patterns(name) ==
    LET enc == Encode(name) IN
    << enc \o <<0>>, <<0>> \o enc \o <<0>>,
       [i \in 1..Len(enc) |-> enc[i] - 32] \o <<0>> >>

\* the patterns of the common names
common_patterns == [ n \in 1..Len(common_partitions) |-> patterns(common_partitions[n]) ]

\* the first pass of parse_heuristic: for each common name, the first of
\* its patterns found in the blob gives a partition of that name
heuristic_common(blob) ==
    LET idx(n) ==
            LET at == [k \in 1..3 |-> Find(blob, common_patterns[n][k])] IN
            IF at[1] >= 0 THEN at[1] ELSE IF at[2] >= 0 THEN at[2] ELSE at[3]
        found == SelectSeq([n \in 1..Len(common_partitions) |-> n],
                           LAMBDA n : idx(n) >= 0)
    IN  [ i \in 1..Len(found) |->
            Partition(common_partitions[found[i]], size_near(blob, idx(found[i])), <<>>) ]

\* re.findall(rb"([A-Za-z0-9_\-]{3,32})\x00", pit_bytes), from offset i - 1
\* on: of every run of token bytes that a zero byte ends, its last 32 bytes
\* at most, if they are 3 at least
RECURSIVE findall_tokens(_, _)
findall_tokens(blob, i) ==
    LET RECURSIVE run_end(_)
        run_end(j) == IF j <= Len(blob) /\ blob[j] \in TokenBytes THEN run_end(j + 1) ELSE j
        e == run_end(i)
    IN  IF i > Len(blob) THEN <<>>
        ELSE IF e = i THEN findall_tokens(blob, i + 1)
        ELSE IF e <= Len(blob) /\ blob[e] = 0 /\ e - i >= 3
        THEN <<SubSeq(blob, IF e - 32 > i THEN e - 32 ELSE i, e - 1)>>
             \o findall_tokens(blob, e + 1)
        ELSE findall_tokens(blob, e)

\* (mutant) a token is kept whether or not its name was seen
token_kept_again(s, seen_names) ==
    /\ ~(Len(s) < 3 \/ Len(s) > 32)
    /\ s \notin {"samsung", "android", "partition", "table", "header"}

\* the second pass keeps the lowercased token s: it has 3 to 32 characters,
\* its name was not seen and is none of the five it rejects (every token
\* matches ^[a-z0-9_\-]+$ once lowercased)
token_kept(s, seen_names) ==
    /\ ~(Len(s) < 3 \/ Len(s) > 32)
    /\ ~(s \in seen_names
         \/ s \in {"samsung", "android", "partition", "table", "header"})

\* parse_heuristic(pit_bytes): the partitions of the common names, then
\* one for each other token that is kept
parse_heuristic(blob) ==
    LET named  == heuristic_common(blob)
        tokens == findall_tokens(blob, 1)
        RECURSIVE scan(_)
        \* parts and seen_names after the first n tokens
        scan(n) ==
            IF n = 0
            THEN [ parts |-> named,
                   seen_names |-> { named[i].name : i \in 1..Len(named) } ]
            ELSE LET st == scan(n - 1)
                     t  == Lower(Decode(tokens[n]))
                 IN  IF token_kept(t, st.seen_names)
                     THEN [ parts |-> Append(st.parts, Partition(t, <<>>, <<>>)),
                            seen_names |-> st.seen_names \cup {t} ]
                     ELSE st
    IN  scan(Len(tokens)).parts

(***************************************************************************)
(* Packets.                                                                *)
(***************************************************************************)
\* the packets a device sends: a command and the length its header
\* announces (KiB)
Packets ==
    { [cmd |-> FILE_TRANSFER, len |-> 4],
      [cmd |-> FILE_TRANSFER, len |-> MaxPayload],
      [cmd |-> FILE_COMPLETE, len |-> 0],
      [cmd |-> FILE_COMPLETE, len |-> 4],
      [cmd |-> SESSION_START, len |-> 0] }

\* the text of the OdinProtocolError _receive_packet raises for what went
\* wrong inside it
receive_failed(inner) == "Receive packet failed: " \o inner

\* the texts of the errors _receive_packet raises
short_header(n) == "Invalid packet header (got " \o ToString(n) \o " bytes)"

ReceiveTexts ==
    { receive_failed(StrError(e)) : e \in USBErrors }
    \cup { receive_failed(short_header(n)) : n \in 0..(HEADER_LEN - 1) }
    \cup { receive_failed("Unexpected command") }

\* `"timeout" in str(e).lower()' for each of these texts
says_timeout == [msg \in ReceiveTexts |-> SaysTimeout(msg)]

\* f.write(data) on the open output file
file_write(file, len) ==
    IF len = 0 THEN file ELSE [file EXCEPT !.data = Append(@, len)]

\* open(out_file, 'wb')
file_create(file) == [exists |-> TRUE, by |-> "read", data |-> <<>>]

\* the except clause of read_partition: remove the file if it exists
cleanup(file) == NoFile

(***************************************************************************)
(* read_partition: what the receive loop does with a packet, and with an   *)
(* OdinProtocolError.  `act' is "return" (ret tells what), "raise" (the    *)
(* exception reaches the outer handler, which cleans up and raises) or     *)
(* "loop".                                                                 *)
(***************************************************************************)
\* (mutant) the loop body without the safety check
read_packet_unchecked(file, total, cmd, len) ==
    IF cmd = FILE_COMPLETE
    THEN [act |-> "return", ret |-> "True", file |-> file, total |-> total]
    ELSE [ act |-> "loop", ret |-> "",
           file |-> IF cmd = FILE_TRANSFER THEN file_write(file, len) ELSE file,
           total |-> IF cmd = FILE_TRANSFER THEN total + len ELSE total ]

read_packet(file, total, cmd, len) ==
    IF cmd = FILE_COMPLETE
    THEN [act |-> "return", ret |-> "True", file |-> file, total |-> total]
    ELSE LET file2  == IF cmd = FILE_TRANSFER THEN file_write(file, len) ELSE file
             total2 == IF cmd = FILE_TRANSFER THEN total + len ELSE total
         IN  IF total2 > READ_CEILING
             THEN [act |-> "raise", ret |-> "", file |-> cleanup(file2), total |-> total2]
             ELSE [act |-> "loop", ret |-> "", file |-> file2, total |-> total2]

read_error(file, total, msg) ==
    IF says_timeout[msg]
    THEN [ act |-> "return", ret |-> IF total > 0 THEN "True" ELSE "False",
           file |-> file, total |-> total ]
    ELSE [act |-> "raise", ret |-> "", file |-> cleanup(file), total |-> total]

(***************************************************************************)
(* write_partition and erase_partition: what they make of the              *)
(* acknowledgment.                                                         *)
(***************************************************************************)
write_ack(cmd) ==
    [act |-> "return", ret |-> IF cmd = FILE_COMPLETE THEN "True" ELSE "False"]

\* (mutant) a missing acknowledgment reported as failure
write_ack_error_fails(msg) == [act |-> "return", ret |-> "False"]

write_ack_error(msg) == [act |-> "return", ret |-> "True"]

erase_ack(cmd) ==
    [act |-> "return", ret |-> IF cmd = FILE_COMPLETE THEN "True" ELSE "False"]

\* (mutant) a missing completion response assumed to be success
erase_ack_error_assumes(msg) == [act |-> "return", ret |-> "True"]

erase_ack_error(msg) ==
    IF says_timeout[msg]
    THEN [act |-> "return", ret |-> "False"]
    ELSE [act |-> "raise", ret |-> ""]

\* the text the outer handler of each operation raises
Failed(op) ==
    CASE op = "read_partition"  -> "Read partition failed"
      [] op = "write_partition" -> "Write partition failed"
      [] op = "erase_partition" -> "Erase partition failed"
      [] OTHER                  -> "failed"

(***************************************************************************)
(* _receive_packet: the header read, then the payload reads.  f is the     *)
(* frame with the history of the exchange.                                 *)
(***************************************************************************)
\* _receive_packet returned (cmd, data), data of len KiB
Received(f, cmd, len) ==
    CASE f.rx_cont = "read" ->
            LET r == read_packet(outfile, f.total_received, cmd, len) IN
            /\ outfile' = r.file
            /\ fr' = [f EXCEPT !.total_received = r.total]
            /\ CASE r.act = "return" -> Leave(call, r.ret, "")
                 [] r.act = "raise"  -> Leave(call, "raise", Failed(call.op))
                 [] OTHER            -> Goto("rx_hdr")
      [] f.rx_cont = "write" ->
            /\ outfile' = outfile
            /\ fr' = f
            /\ Leave(call, write_ack(cmd).ret, "")
      [] f.rx_cont = "erase" ->
            /\ outfile' = outfile
            /\ fr' = f
            /\ Leave(call, erase_ack(cmd).ret, "")
      [] OTHER ->
            /\ outfile' = outfile
            /\ fr' = f
            /\ Leave(call, "packet", "")

\* _receive_packet raised OdinProtocolError(msg)
ReceiveRaised(f, msg) ==
    CASE f.rx_cont = "read" ->
            LET r == read_error(outfile, f.total_received, msg) IN
            /\ outfile' = r.file
            /\ fr' = f
            /\ IF r.act = "return" THEN Leave(call, r.ret, "")
               ELSE Leave(call, "raise", Failed(call.op))
      [] f.rx_cont = "write" ->
            /\ outfile' = outfile
            /\ fr' = f
            /\ Leave(call, write_ack_error(msg).ret, "")
      [] f.rx_cont = "erase" ->
            LET r == erase_ack_error(msg) IN
            /\ outfile' = outfile
            /\ fr' = f
            /\ IF r.act = "return" THEN Leave(call, r.ret, "")
               ELSE Leave(call, "raise", Failed(call.op))
      [] OTHER ->
            /\ outfile' = outfile
            /\ fr' = f
            /\ Leave(call, "raise", "Receive packet failed")

\* the check of the received command against expected_command (0: None)
unexpected(expected, cmd) == expected # 0 /\ cmd # expected

\* the packet is complete: the expected_command check, then back to the
\* caller of _receive_packet
Completed(f, cmd, len) ==
    LET f2 == [f EXCEPT !.ev = "packet",
                        !.npackets = IF @ < MaxPackets THEN @ + 1 ELSE @,
                        !.rx_cmd = cmd, !.rx_len = 0,
                        !.rxlog = IF cmd = FILE_TRANSFER /\ len > 0
                                  THEN Append(@, len) ELSE @]
    IN  IF unexpected(f.rx_expected, cmd)
        THEN ReceiveRaised(f2, receive_failed("Unexpected command"))
        ELSE Received(f2, cmd, len)

\* the history's count of the transport reads, one more; in a run without
\* end (endless) it is kept within MaxPackets + 1
Counted(n, endless) == IF endless /\ n > MaxPackets THEN MaxPackets ELSE n + 1

\* the read of the 5 header bytes: it raises, or returns fewer than 5
\* bytes, or returns the header of one of the packets P; the device sends
\* at most MaxPackets packets unless it is endless
receive_header(P, endless) ==
    /\ pc = "rx_hdr"
    /\ reads' = Counted(reads, endless)
    /\ \/ \E e \in USBErrors :
            ReceiveRaised([fr EXCEPT !.ev = IF IsUSBTimeout(e) THEN "timeout" ELSE "error"],
                          receive_failed(StrError(e)))
       \/ \E n \in 0..(HEADER_LEN - 1) :
            ReceiveRaised([fr EXCEPT !.ev = "short"], receive_failed(short_header(n)))
       \/ \E p \in P :
            /\ endless \/ fr.npackets < MaxPackets
            /\ IF p.len > 0
               THEN /\ fr' = [fr EXCEPT !.rx_cmd = p.cmd, !.rx_len = p.len]
                    /\ outfile' = outfile
                    /\ Goto("rx_payload")
               ELSE Completed(fr, p.cmd, 0)
    /\ UNCHANGED <<bridgeVars, catalogVars, heimdall, claimed, usb, detached, call, cli, wire, tools, hs_dev>>

ReceiveHeader == receive_header(Packets, FALSE)

\* the payload reads, chunk after chunk until `remaining' is 0: the device
\* delivers every chunk, or a read raises, or a read returns no bytes (and
\* `remaining' is what it was)
receive_payload(endless) ==
    /\ pc = "rx_payload"
    /\ \/ /\ reads' = Counted(reads, endless)
          /\ Completed(fr, fr.rx_cmd, fr.rx_len)
       \/ /\ reads' = Counted(reads, endless)
          /\ \E e \in USBErrors :
                ReceiveRaised([fr EXCEPT !.ev = IF IsUSBTimeout(e) THEN "timeout" ELSE "error"],
                              receive_failed(StrError(e)))
       \/ \* (the history counts empty reads in an endless run only)
          /\ reads' = IF endless THEN Counted(reads, endless) ELSE reads
          /\ fr' = fr
          /\ outfile' = outfile
          /\ Goto("rx_payload")
    /\ UNCHANGED <<bridgeVars, catalogVars, heimdall, claimed, usb, detached, call, cli, wire, tools, hs_dev>>

ReceivePayload == receive_payload(FALSE)

\* control enters _receive_packet(expected_command) for the caller cont
ReceiveFrame(f, cont, expected) ==
    [f EXCEPT !.rx_cont = cont, !.rx_expected = expected]

\* struct.pack('<BI', command, len(data)): the length field of the header
\* of a packet the history records, in bytes.  The payload is the 8 bytes
\* of struct.pack('<II', ..) ("info"), the 4 bytes of struct.pack('<I', ..)
\* ("id"), b KiB of file data ("data"), or empty; every length here is below
\* 2^32, the width of the field
header_length(p) ==
    CASE p.tag = "info" -> 4 + 4
      [] p.tag = "id"   -> 4
      [] p.tag = "data" -> p.b * 1024
      [] OTHER          -> 0

\* (mutant) _send_packet without its guard
send_packet_unguarded(established, cmd, tag, a, b, w) ==
    [ ok |-> w, exc |-> IF w THEN "" ELSE "Send packet failed",
      wire |-> <<Wrote(cmd, tag, a, b)>> ]

\* _send_packet(command, data): w tells whether the transport write goes
\* through; the payload is recorded as (tag, a, b)
send_packet(established, cmd, tag, a, b, w) ==
    IF ~established
    THEN [ok |-> FALSE, exc |-> "Session not established", wire |-> <<>>]
    ELSE [ ok |-> w, exc |-> IF w THEN "" ELSE "Send packet failed",
           wire |-> <<Wrote(cmd, tag, a, b)>> ]

\* the guard at the head of _receive_packet
receive_refused(established) == ~established

\* _send_packet(command), called by a caller of the bridge
SendPacket ==
    /\ Idle
    /\ \E cmd \in {FILE_TRANSFER, REBOOT}, w \in WriteResults(out_ep) :
        LET res == send_packet(session_established, cmd, "empty", 0, 0, w) IN
        /\ Enter("_send_packet", "", FALSE, cmd)
        /\ wire' = res.wire /\ reads' = 0 /\ tools' = <<>>
        /\ IF res.ok THEN Leave(call', "True", "")
           ELSE Leave(call', "raise", res.exc)
        /\ UNCHANGED <<bridgeVars, catalogVars, envVars, fr, cli, hs_dev>>

\* _receive_packet(expected_command), called by a caller of the bridge
ReceivePacket ==
    /\ Idle
    /\ \E expected \in {0, FILE_COMPLETE} :
        /\ Enter("_receive_packet", "", FALSE, expected)
        /\ wire' = <<>> /\ reads' = 0 /\ tools' = <<>>
        /\ IF receive_refused(session_established)
           THEN /\ fr' = fr
                /\ Leave(call', "raise", "Session not established")
           ELSE /\ fr' = ReceiveFrame(NoFrame, "api", expected)
                /\ Goto("rx_hdr")
        /\ UNCHANGED <<bridgeVars, catalogVars, envVars, cli, hs_dev>>

(***************************************************************************)
(* The external tool.                                                      *)
(***************************************************************************)
\* how a run of heimdall ends, when it is on the PATH: exit code 0, another
\* exit code, the subprocess timeout, a failure to launch
ToolOutcomes(hb) == IF hb THEN { "ok", "fail", "timeout", "error" } ELSE { "absent" }

\* a run of heimdall as the history records it: the command, and whether
\* it did what was asked
Ran(cmd, ok) == [cmd |-> cmd, ok |-> ok]

\* (mutant) the exit code of the tool ignored
call_heimdall_ignored(hb, cmd, t) ==
    [ret |-> FALSE, tools |-> IF hb THEN <<Ran(cmd, t = "ok")>> ELSE <<>>]

\* _call_heimdall([cmd, ...]): True for exit code 0
call_heimdall(hb, cmd, t) ==
    [ret |-> hb /\ t = "ok", tools |-> IF hb THEN <<Ran(cmd, t = "ok")>> ELSE <<>>]

\* the file heimdall dump leaves at out_file
ToolFile == [exists |-> TRUE, by |-> "heimdall", data |-> <<>>]

(***************************************************************************)
(* detect_partition_layout.  What PitParser.parse returns is what the      *)
(* parsers make of the tool's print-pit output or of the PIT's bytes, or   *)
(* nothing (no strategy went through).                                     *)
(***************************************************************************)
\* what heimdall print-pit may show of the device's PIT
PitTexts ==
    { <<"--- Entry #0 ---", "Partition Name: BOOT", "Partition Size: 8192", "Identifier: 20">>,
      <<"Entry #0", "Name: 'oem'", "Size: 0x1000", "ID: 0">> }

\* the PIT bytes a download may give
PitBlobs ==
    { Encode("oem") \o <<0>>,
      Encode("boot") \o <<0, 0, 0, 0, 2>>,
      <<0, 0, 0, 0>> }

\* what _parse_text returns for the tool's print-pit output
PrintedParses == { parse_text(t) : t \in PitTexts }

\* what the heuristic parser returns for the downloaded bytes, the session
\* having downloaded them
HeuristicParses == { parse_heuristic(b) : b \in PitBlobs }

\* what PitParser.parse returns with the tool at hand: the parse of its
\* print-pit output, or of the bytes it downloaded, or nothing
PitParses == PrintedParses \cup HeuristicParses \cup { <<>> }

\* tempfile.NamedTemporaryFile(delete=False): the file is made and left
tmp_made(files, path) ==
    [made |-> files.made \cup {path}, left |-> files.left \cup {path}]

\* (mutant) the file removed when the body returned, left when it raised
tmp_removed_on_return(files, path, raised) ==
    [files EXCEPT !.left = IF raised THEN @ ELSE @ \ {path}]

\* finally: os.remove(tmp_path), after a body that returned or raised
tmp_removed(files, path, raised) ==
    [files EXCEPT !.left = @ \ {path}]

\* parse_with_heimdall_file: whether one of the two forms of print-pit ran
\* and printed the PIT (p), else it raises; printed is what _parse_text
\* returns for the output
parse_with_heimdall_file(p, printed) ==
    IF p = "ok"
    THEN [raised |-> FALSE, parts |-> printed]
    ELSE [raised |-> TRUE, parts |-> <<>>]

\* parse_via_heimdall_device: a temporary file, heimdall download-pit into
\* it (t), which raises unless the exit code is 0, then print-pit on it
parse_via_heimdall_device(files, t, p, printed) ==
    LET made == tmp_made(files, "device.pit")
        r    == IF t = "ok" THEN parse_with_heimdall_file(p, printed)
                ELSE [raised |-> TRUE, parts |-> <<>>]
    IN  [ raised |-> r.raised, parts |-> r.parts,
          files  |-> tmp_removed(made, "device.pit", r.raised) ]

\* the session-download strategy of PitParser.parse with heimdall on the
\* PATH: a temporary file, bridge.download_pit into it by the tool (t),
\* then print-pit on it or, when that raises, the heuristic parse of its
\* bytes (guessed)
parse_session_tool(files, t, p, printed, guessed) ==
    LET made == tmp_made(files, "session.pit")
        h    == parse_with_heimdall_file(p, printed)
        r    == IF t # "ok" THEN [raised |-> TRUE, parts |-> <<>>]
                ELSE IF ~h.raised THEN h
                ELSE [raised |-> FALSE, parts |-> guessed]
    IN  [ raised |-> r.raised, parts |-> r.parts,
          files  |-> tmp_removed(made, "session.pit", r.raised) ]

\* PitParser.parse(heimdall_bin=hb, bridge=bridge) with heimdall on the
\* PATH: the device strategy, and when it raises the session strategy
parse_tool(x) ==
    LET d == parse_via_heimdall_device(NoFrame.tmp, x.t1, x.p1, x.printed)
    IN  IF ~d.raised THEN d
        ELSE parse_session_tool(d.files, x.t2, x.p2, x.printed, x.guessed)

\* (mutant) the detected list kept as it is
detected_kept(parts) == parts

\* the end of detect_partition_layout: the common list when nothing was
\* detected
detected(parts) == IF parts = <<>> THEN CommonList ELSE parts

\* (f: the frame the call goes on with)
DetectStore(parts, f) ==
    /\ partitions' = catalog(detected(parts))
    /\ layout_detected' = TRUE
    /\ fr' = [f EXCEPT !.res = <<parts>>]
    /\ IF fr.dt_cont = "return" THEN Leave(call, "dict", "") ELSE Goto(fr.dt_cont)

\* (mutant) the cache never used
cached_never(flag, parts) == FALSE

\* self._layout_detected and self.partitions: the cached mapping is returned
cached(flag, parts) == flag /\ parts # <<>>

\* detect_partition_layout from its head: the cached mapping; or with the
\* tool its runs of download-pit and print-pit, recorded as one; or with no tool the session's download
DetectLayout ==
    /\ pc = "dt"
    /\ IF cached(layout_detected, partitions)
       THEN /\ IF fr.dt_cont = "return" THEN Leave(call, "dict", "") ELSE Goto(fr.dt_cont)
            /\ UNCHANGED <<catalogVars, tools, fr>>
       ELSE IF heimdall
       THEN \E parts \in PitParses :
                /\ DetectStore(parts, fr)
                /\ tools' = Append(tools, Ran("download-pit", parts # <<>>))
       ELSE /\ EnsureSession("dp_get", "dt_fail")
            /\ UNCHANGED <<catalogVars, tools>>
    /\ UNCHANGED <<bridgeVars, envVars, call, cli, wire, reads, hs_dev>>

\* the raw-protocol download_pit returned True: to its caller, or to
\* PitParser.parse, which parses the bytes and removes its temporary file,
\* or to the parser inside detect_partition_layout
DownloadDone(f) ==
    CASE call.op = "download_pit" ->
            /\ Leave(call, "True", "")
            /\ fr' = f
            /\ UNCHANGED catalogVars
      [] call.op = "parse" ->
            \E guessed \in HeuristicParses :
                /\ Leave(call, "list", "")
                /\ fr' = [f EXCEPT !.res = <<guessed>>,
                                   !.tmp = tmp_removed(f.tmp, "session.pit", FALSE)]
                /\ UNCHANGED catalogVars
      [] OTHER -> \E parts \in HeuristicParses : DetectStore(parts, f)

\* the raw-protocol download_pit raised: to its caller, or through the
\* finally clause of PitParser.parse, or into the handler of
\* detect_partition_layout
DownloadRaised(f) ==
    /\ CASE call.op = "download_pit" -> Leave(call, "raise", "PIT download failed")
         [] call.op = "parse"        -> Goto("ps_fail")
         [] OTHER                    -> Goto("dt_fail")
    /\ fr' = f
    /\ UNCHANGED catalogVars

\* download_pit over the protocol: the GET_PIT packet, written directly
DownloadGet ==
    /\ pc = "dp_get"
    /\ wire' = Append(wire, Wrote(GET_PIT, "empty", 0, 0))
    /\ \E w \in WriteResults(out_ep) :
        IF w
        THEN /\ Goto("dp_read")
             /\ fr' = [fr EXCEPT !.pit_len = 0]
             /\ UNCHANGED catalogVars
        ELSE DownloadRaised([fr EXCEPT !.pit_len = 0])
    /\ UNCHANGED <<bridgeVars, envVars, call, cli, reads, tools, hs_dev>>

\* download_pit after its read loop: with nothing read it raises, else the
\* file is written
DownloadEnded(f) ==
    IF fr.pit_len > 0 THEN DownloadDone(f) ELSE DownloadRaised(f)

\* download_pit's read loop, a read per step: a full chunk; a short chunk,
\* the last; no bytes; a USBError, which ends the loop when it is a
\* timeout (errno 110) and is raised when it is not
DownloadRead ==
    /\ pc = "dp_read"
    /\ \/ /\ fr.pit_len < MaxPitChunks
          /\ fr' = [fr EXCEPT !.pit_len = @ + 1]
          /\ Goto("dp_read")
          /\ UNCHANGED catalogVars
       \/ DownloadDone([fr EXCEPT !.pit_len = 0])
       \/ DownloadEnded([fr EXCEPT !.pit_len = 0])
       \/ \E e \in USBErrors :
            IF IsUSBTimeout(e)
            THEN DownloadEnded([fr EXCEPT !.pit_len = 0])
            ELSE DownloadRaised([fr EXCEPT !.pit_len = 0])
    /\ UNCHANGED <<bridgeVars, envVars, call, cli, wire, reads, tools, hs_dev>>

\* the download raised: detection goes on with nothing parsed
DetectFailed ==
    /\ pc = "dt_fail"
    /\ DetectStore(<<>>, fr)
    /\ UNCHANGED <<bridgeVars, envVars, call, cli, wire, reads, tools, hs_dev>>

\* download_pit with heimdall on the PATH: the run of download-pit is not
\* guarded; its exit code is the result, and a subprocess timeout or a
\* failure to launch leaves the call as the exception subprocess.run raised
download_tool(t) ==
    CASE t = "ok"      -> [ret |-> "True", exc |-> ""]
      [] t = "fail"    -> [ret |-> "False", exc |-> ""]
      [] t = "timeout" -> [ret |-> "raise", exc |-> "TimeoutExpired"]
      [] OTHER         -> [ret |-> "raise", exc |-> "OSError"]

\* download_pit(out_path), called by a caller of the bridge
DownloadPit ==
    /\ Idle
    /\ \E t \in ToolOutcomes(heimdall) :
        LET r == download_tool(t) IN
        /\ Enter("download_pit", "", FALSE, 0)
        /\ wire' = <<>> /\ reads' = 0
        /\ IF heimdall
           THEN /\ tools' = <<Ran("download-pit", t = "ok")>>
                /\ fr' = NoFrame
                /\ Leave(call', r.ret, r.exc)
           ELSE /\ tools' = <<>>
                /\ IF session_established
                   THEN /\ fr' = [NoFrame EXCEPT !.raw = TRUE]
                        /\ Goto("dp_get")
                   ELSE IF dev = None
                   THEN /\ fr' = [NoFrame EXCEPT !.raw = TRUE]
                        /\ Leave(call', "raise", "Device not connected")
                   ELSE /\ fr' = HandshakeFrame([NoFrame EXCEPT !.raw = TRUE],
                                                DEFAULT_ATTEMPTS, "dp_get", "propagate")
                        /\ Goto("hs")
    /\ UNCHANGED <<bridgeVars, catalogVars, envVars, cli, hs_dev>>

\* detect_partition_layout, called by a caller of the bridge
DetectPartitionLayout ==
    /\ Idle
    /\ Enter("detect_partition_layout", "", FALSE, 0)
    /\ wire' = <<>> /\ reads' = 0 /\ tools' = <<>>
    /\ fr' = [NoFrame EXCEPT !.dt_cont = "return"]
    /\ Goto("dt")
    /\ UNCHANGED <<bridgeVars, catalogVars, envVars, cli, hs_dev>>

\* get_partition_by_name at the head of an operation: detection runs when
\* the catalog is empty
LookupAt(label) == IF partitions = <<>> THEN "dt" ELSE label

(***************************************************************************)
(* read_partition.                                                         *)
(***************************************************************************)
\* read_partition(name, out_file), no file being at out_file
ReadPartition ==
    /\ Idle
    /\ \E name \in Names, t \in ToolOutcomes(heimdall) :
        LET tool == call_heimdall(heimdall, "dump", t) IN
        /\ Enter("read_partition", name, FALSE, 0)
        /\ wire' = <<>> /\ reads' = 0 /\ tools' = tool.tools
        /\ IF tool.ret
           THEN /\ outfile' = ToolFile
                /\ fr' = fr
                /\ Leave(call', "True", "")
           ELSE /\ outfile' = outfile
                /\ fr' = [NoFrame EXCEPT !.dt_cont = "rd_lookup", !.raw = TRUE]
                /\ Goto(LookupAt("rd_lookup"))
        /\ UNCHANGED <<bridgeVars, catalogVars, heimdall, claimed, usb, detached, cli, hs_dev>>

\* the partition must be in the catalog; then the session
ReadLookup ==
    /\ pc = "rd_lookup"
    /\ IF get_partition(partitions, call.name) = <<>>
       THEN /\ fr' = fr
            /\ Leave(call, "raise", "Partition not found")
       ELSE EnsureSession("rd_send", "propagate")
    /\ UNCHANGED <<bridgeVars, catalogVars, envVars, call, cli, wire, reads, tools, hs_dev>>

\* the transfer request, then the output file is opened
ReadSend ==
    /\ pc = "rd_send"
    /\ \E w \in WriteResults(out_ep) :
        LET id  == guess_partition_identifier(partitions, call.name)
            res == send_packet(session_established, FILE_TRANSFER, "id", id, 0, w)
        IN
        /\ wire' = wire \o res.wire
        /\ IF res.ok
           THEN /\ outfile' = file_create(outfile)
                /\ fr' = ReceiveFrame([fr EXCEPT !.partition_id = id], "read", 0)
                /\ Goto("rx_hdr")
           ELSE /\ outfile' = cleanup(outfile)
                /\ fr' = fr
                /\ Leave(call, "raise", Failed(call.op))
    /\ UNCHANGED <<bridgeVars, catalogVars, heimdall, claimed, usb, detached, call, cli, reads, tools, hs_dev>>

(***************************************************************************)
(* write_partition.                                                        *)
(***************************************************************************)
\* sizes of input files (KiB)
FileSizes == { 0, 1, WRITE_BUFFER, WRITE_BUFFER + 1 }
InputFiles ==
    { [exists |-> FALSE, size |-> 0] } \cup { [exists |-> TRUE, size |-> z] : z \in FileSizes }

WriteGateText == "Write requires heimdall or --force flag"
EraseGateText == "Erase requires --force flag and explicit confirmation"

\* (mutant) the checks without the force gate
write_refusal_ungated(force, input) ==
    IF ~input.exists THEN "Input file does not exist"
    ELSE IF input.size = 0 THEN "Input file is empty"
    ELSE ""

\* the checks of write_partition once the tool did not do the write: ""
\* or the text of the error raised
write_refusal(force, input) ==
    IF ~force THEN WriteGateText
    ELSE IF ~input.exists THEN "Input file does not exist"
    ELSE IF input.size = 0 THEN "Input file is empty"
    ELSE ""

WritePartition ==
    /\ Idle
    /\ \E name \in Names, force \in BOOLEAN, t \in ToolOutcomes(heimdall),
       input \in InputFiles :
        LET tool == call_heimdall(heimdall, "flash", t) IN
        /\ Enter("write_partition", name, force, 0)
        /\ wire' = <<>> /\ reads' = 0 /\ tools' = tool.tools
        /\ IF tool.ret
           THEN /\ fr' = fr
                /\ Leave(call', "True", "")
           ELSE IF write_refusal(force, input) # ""
           THEN /\ fr' = [NoFrame EXCEPT !.raw = force]
                /\ Leave(call', "raise", write_refusal(force, input))
           ELSE /\ fr' = [NoFrame EXCEPT !.dt_cont = "wr_lookup", !.file_size = input.size,
                                          !.raw = TRUE]
                /\ Goto(LookupAt("wr_lookup"))
        /\ UNCHANGED <<bridgeVars, catalogVars, envVars, cli, hs_dev>>

\* a name missing from the catalog is logged; then the session
WriteLookup ==
    /\ pc = "wr_lookup"
    /\ EnsureSession("wr_info", "propagate")
    /\ UNCHANGED <<bridgeVars, catalogVars, envVars, call, cli, wire, reads, tools, hs_dev>>

\* the partition-info packet
WriteInfo ==
    /\ pc = "wr_info"
    /\ \E w \in WriteResults(out_ep) :
        LET id  == guess_partition_identifier(partitions, call.name)
            res == send_packet(session_established, PARTITION_INFO, "info", id,
                               fr.file_size, w)
        IN
        /\ wire' = wire \o res.wire
        /\ fr' = [fr EXCEPT !.partition_id = id, !.total_sent = 0]
        /\ IF res.ok THEN Goto("wr_chunk")
           ELSE Leave(call, "raise", Failed(call.op))
    /\ UNCHANGED <<bridgeVars, catalogVars, envVars, call, cli, reads, tools, hs_dev>>

\* (mutant) the rest of the file read at once
next_chunk_whole(size, sent) == size - sent

\* f.read(buffer_size) at offset `sent' of a file of `size'
next_chunk(size, sent) ==
    IF size - sent < WRITE_BUFFER THEN size - sent ELSE WRITE_BUFFER

\* the chunk loop: a file-transfer packet per chunk, and at end of file the
\* completion packet, then the wait for the acknowledgment
WriteChunk ==
    /\ pc = "wr_chunk"
    /\ \E w \in WriteResults(out_ep) :
        LET chunk == next_chunk(fr.file_size, fr.total_sent)
            res == IF chunk > 0
                   THEN send_packet(session_established, FILE_TRANSFER, "data",
                                    fr.total_sent, chunk, w)
                   ELSE send_packet(session_established, FILE_COMPLETE, "empty", 0, 0, w)
        IN
        /\ wire' = wire \o res.wire
        /\ IF ~res.ok
           THEN /\ fr' = fr
                /\ Leave(call, "raise", Failed(call.op))
           ELSE IF chunk > 0
           THEN /\ fr' = [fr EXCEPT !.total_sent = @ + chunk]
                /\ Goto("wr_chunk")
           ELSE /\ fr' = ReceiveFrame(fr, "write", 0)
                /\ Goto("rx_hdr")
    /\ UNCHANGED <<bridgeVars, catalogVars, envVars, call, cli, reads, tools, hs_dev>>

(***************************************************************************)
(* erase_partition.                                                        *)
(***************************************************************************)
\* erase_partition(c.name, c.force) from its head, t the tool's outcome
erase_partition(c, t) ==
    LET tool == call_heimdall(heimdall, "erase", t) IN
    /\ call' = c
    /\ wire' = <<>> /\ reads' = 0
    /\ IF ~c.force
       THEN /\ tools' = <<>>
            /\ fr' = NoFrame
            /\ Leave(c, "raise", EraseGateText)
       ELSE /\ tools' = tool.tools
            /\ IF tool.ret
               THEN /\ fr' = NoFrame
                    /\ Leave(c, "True", "")
               ELSE /\ fr' = [NoFrame EXCEPT !.dt_cont = "er_lookup", !.raw = TRUE]
                    /\ Goto(LookupAt("er_lookup"))

ErasePartition ==
    /\ Idle
    /\ \E name \in Names, force \in BOOLEAN, t \in ToolOutcomes(heimdall) :
        /\ erase_partition([op |-> "erase_partition", name |-> name, force |-> force, n |-> 0], t)
        /\ UNCHANGED <<bridgeVars, catalogVars, envVars, cli, hs_dev>>

EraseLookup ==
    /\ pc = "er_lookup"
    /\ EnsureSession("er_send", "propagate")
    /\ UNCHANGED <<bridgeVars, catalogVars, envVars, call, cli, wire, reads, tools, hs_dev>>

\* the erase request, then the wait for the completion response
EraseSend ==
    /\ pc = "er_send"
    /\ \E w \in WriteResults(out_ep) :
        LET id  == guess_partition_identifier(partitions, call.name)
            res == send_packet(session_established, ERASE_PARTITION, "id", id, 0, w)
        IN
        /\ wire' = wire \o res.wire
        /\ IF res.ok
           THEN /\ fr' = ReceiveFrame([fr EXCEPT !.partition_id = id], "erase", 0)
                /\ Goto("rx_hdr")
           ELSE /\ fr' = fr
                /\ Leave(call, "raise", Failed(call.op))
    /\ UNCHANGED <<bridgeVars, catalogVars, envVars, call, cli, reads, tools, hs_dev>>

(***************************************************************************)
(* reboot_device: every exception is turned into False.                    *)
(***************************************************************************)
RebootDevice ==
    /\ Idle
    /\ \E t \in ToolOutcomes(heimdall) :
        LET tool == call_heimdall(heimdall, "reboot", t) IN
        /\ Enter("reboot_device", "", FALSE, 0)
        /\ wire' = <<>> /\ reads' = 0 /\ tools' = tool.tools
        /\ IF tool.ret
           THEN /\ fr' = NoFrame
                /\ Leave(call', "True", "")
           ELSE IF session_established
           THEN /\ fr' = [NoFrame EXCEPT !.raw = TRUE]
                /\ Goto("rb_send")
           ELSE IF dev = None
           THEN /\ fr' = [NoFrame EXCEPT !.raw = TRUE]
                /\ Leave(call', "False", "")
           ELSE /\ fr' = HandshakeFrame([NoFrame EXCEPT !.raw = TRUE],
                                        DEFAULT_ATTEMPTS, "rb_send", "reboot")
                /\ Goto("hs")
    /\ UNCHANGED <<bridgeVars, catalogVars, envVars, cli, hs_dev>>

\* the reboot packet
RebootSend ==
    /\ pc = "rb_send"
    /\ \E w \in WriteResults(out_ep) :
        LET res == send_packet(session_established, REBOOT, "empty", 0, 0, w) IN
        /\ wire' = wire \o res.wire
        /\ Leave(call, IF res.ok THEN "True" ELSE "False", "")
    /\ fr' = fr
    /\ UNCHANGED <<bridgeVars, catalogVars, envVars, call, cli, reads, tools, hs_dev>>

(***************************************************************************)
(* The command line's erase: main() of xyn_cli.py with the erase command.  *)
(* A run constructs its bridge, connects, asks for the confirmation,       *)
(* erases, and disconnects in its finally clause.                          *)
(***************************************************************************)
\* what the operator may type at the prompt
Typed == { "YES", " YES ", "yes", "NO", "" }

\* (mutant) the confirmation compared without regard to case
cancelled_nocase(typed) == Lower(Strip(typed)) # "yes"

\* confirm.strip() != 'YES'
cancelled(typed) == Strip(typed) # "YES"

\* main() up to the return of connect()
CliErase ==
    /\ Idle
    /\ Bridge = ClearedBridge /\ partitions = <<>> /\ ~layout_detected /\ claimed = {}
    /\ \E name \in Names, typed \in Typed, present \in SUBSET Devices,
       p \in Probes(Bridge), cfg \in Configs, detach \in BOOLEAN, claim_ok \in BOOLEAN :
        /\ cli' = [stage |-> "connect", typed |-> typed, name |-> name, code |-> 0]
        /\ connect([op |-> "connect", name |-> "", force |-> FALSE, n |-> 0],
                   present, p, cfg, detach, claim_ok)
        /\ UNCHANGED <<catalogVars, heimdall, outfile, hs_dev>>

\* connect() raised: the error is printed; else the prompt, and with the
\* confirmation typed, erase_partition(name, force=True)
CliConfirm ==
    /\ pc = "returned"
    /\ cli.stage = "connect"
    /\ IF last.ret = "raise"
       THEN /\ cli' = [cli EXCEPT !.stage = "finally", !.code = 1]
            /\ UNCHANGED <<pc, call, fr, wire, reads, tools, last>>
       ELSE IF cancelled(cli.typed)
       THEN /\ cli' = [cli EXCEPT !.stage = "finally", !.code = 2]
            /\ UNCHANGED <<pc, call, fr, wire, reads, tools, last>>
       ELSE /\ cli' = [cli EXCEPT !.stage = "erase"]
            /\ \E t \in ToolOutcomes(heimdall) :
                erase_partition([op |-> "erase_partition", name |-> cli.name,
                                 force |-> TRUE, n |-> 0], t)
    /\ UNCHANGED <<bridgeVars, catalogVars, envVars, hs_dev>>

\* erase_partition returned or raised: the exit code
CliErased ==
    /\ pc = "returned"
    /\ cli.stage = "erase"
    /\ cli' = [cli EXCEPT !.stage = "finally", !.code = IF last.ret = "True" THEN 0 ELSE 1]
    /\ UNCHANGED <<bridgeVars, catalogVars, envVars, pc, call, fr, wire, reads, tools, last, hs_dev>>

\* the finally clause: disconnect if a device is held; the process ends
CliFinally ==
    /\ pc = "returned"
    /\ cli.stage = "finally"
    /\ \E w \in WriteResults(out_ep), release_ok \in BOOLEAN, attach_ok \in BOOLEAN :
        LET res == disconnect(Bridge, claimed, detached, w, release_ok, attach_ok) IN
        IF dev # None
        THEN /\ SetBridge(res.b)
             /\ hs_dev' = None
        ELSE UNCHANGED <<bridgeVars, hs_dev>>
    /\ claimed' = {}
    /\ usb' = <<>> /\ detached' = {}
    /\ cli' = NoCli
    /\ pc' = "idle"
    /\ call' = NoCall /\ fr' = NoFrame /\ last' = NoLast
    /\ wire' = <<>> /\ reads' = 0 /\ tools' = <<>>
    /\ partitions' = <<>> /\ layout_detected' = FALSE
    /\ outfile' = NoFile
    /\ UNCHANGED heimdall

(***************************************************************************)
(* The catalog and the parsers, called on their own.                       *)
(***************************************************************************)
\* the most records a tool output parsed on its own declares
MaxRecords == 2

\* the names guess_partition_identifier is asked for
GuessNames == { "boot", "BOOT", "oem", "Radio", "misc", "xyz" }

\* guess_partition_identifier(name): get_partition_by_name first, which
\* detects the layout when the catalog is empty
GuessPartitionIdentifier ==
    /\ Idle
    /\ \E name \in GuessNames :
        /\ Enter("guess_partition_identifier", name, FALSE, 0)
        /\ wire' = <<>> /\ reads' = 0 /\ tools' = <<>>
        /\ fr' = [NoFrame EXCEPT !.dt_cont = "gi"]
        /\ Goto(LookupAt("gi"))
    /\ UNCHANGED <<bridgeVars, catalogVars, envVars, cli, hs_dev>>

\* the identifier is returned (last.n)
GuessReturn ==
    /\ pc = "gi"
    /\ last' = [Outcome(call, "int", "") EXCEPT
                    !.n = guess_partition_identifier(partitions, call.name)]
    /\ pc' = "returned"
    /\ UNCHANGED <<bridgeVars, catalogVars, envVars, call, fr, cli, wire, reads, tools, hs_dev>>

\* the records of a well-formed tool output: a name, a size in decimal or
\* in hexadecimal, an identifier; a number is given as the tool prints it
\* and by its value
Records ==
    [ name : { "BOOT", "system" },
      size : { [text |-> "8192", val |-> 8192], [text |-> "0x4000", val |-> 16384] },
      id   : { [text |-> "20", val |-> 20], [text |-> "0", val |-> 0] } ]

\* the tool outputs parsed: the marker that introduces each record, and
\* the records in order
TextInputs ==
    [ marker : { "Partition #", "--- Entry #" },
      recs   : UNION { [1..k -> Records] : k \in 1..MaxRecords } ]

\* the lines of the tool output t
Render(t) ==
    LET RECURSIVE lines(_)
        lines(n) ==
            IF n = 0 THEN <<>>
            ELSE lines(n - 1) \o
                 << t.marker \o SubSeq("0123456789", n, n),
                    "Name: " \o t.recs[n].name,
                    "Size: " \o t.recs[n].size.text,
                    "Identifier: " \o t.recs[n].id.text >>
    IN  lines(Len(t.recs))

\* _parse_text of each of the tool outputs
TextParses == [ t \in TextInputs |-> parse_text(Render(t)) ]

\* _parse_text(text), called on a well-formed tool output
ParseText ==
    /\ Idle
    /\ \E t \in TextInputs :
        /\ Enter("_parse_text", "", FALSE, Len(t.recs))
        /\ fr' = [NoFrame EXCEPT !.arg = t, !.res = <<TextParses[t]>>]
        /\ Leave(call', "list", "")
    /\ wire' = <<>> /\ reads' = 0 /\ tools' = <<>>
    /\ UNCHANGED <<bridgeVars, catalogVars, envVars, cli, hs_dev>>

\* n zero bytes
Zeros(n) == [i \in 1..n |-> 0]

\* 0x02000000 as 4 little-endian bytes
SizeBytes == <<0, 0, 0, 2>>

\* the PIT bytes parsed: zero bytes, a zero-terminated token, zero bytes,
\* then nothing, or the size word and 4 zero bytes, or a second token
BlobInputs ==
    { Zeros(pre) \o Encode(token) \o <<0>> \o Zeros(gap) \o tail :
        pre \in {0, 1, 4, 70},
        token \in {"boot", "BOOT", "pit", "odinfw", "samsung", "oem", "bootloader"},
        gap \in {0, 3, 4},
        tail \in {<<>>, SizeBytes \o Zeros(4), Encode("OEM_2") \o <<0>>,
                  Encode("Oem") \o <<0>>} }

\* parse_heuristic of each of them
BlobParses == [ b \in BlobInputs |-> parse_heuristic(b) ]

\* parse_heuristic(pit_bytes)
ParseHeuristic ==
    /\ Idle
    /\ \E b \in BlobInputs :
        /\ Enter("parse_heuristic", "", FALSE, Len(b))
        /\ fr' = [NoFrame EXCEPT !.arg = b, !.res = <<BlobParses[b]>>]
        /\ Leave(call', "list", "")
    /\ wire' = <<>> /\ reads' = 0 /\ tools' = <<>>
    /\ UNCHANGED <<bridgeVars, catalogVars, envVars, cli, hs_dev>>

\* how the runs of the tool end in one call of PitParser.parse:
\* download-pit and print-pit of the device strategy, download-pit and
\* print-pit of the session strategy; and what the parsers make of the PIT
ToolRuns ==
    [ t1 : ToolOutcomes(TRUE), p1 : {"ok", "fail"},
      t2 : ToolOutcomes(TRUE), p2 : {"ok", "fail"},
      printed : PrintedParses, guessed : HeuristicParses ]

\* PitParser.parse(heimdall_bin=hb, bridge=bridge): with the tool, its runs;
\* without it the session strategy makes its temporary file and downloads
\* the PIT over the protocol
Parse ==
    /\ Idle
    /\ Enter("parse", "", FALSE, 0)
    /\ wire' = <<>> /\ reads' = 0 /\ tools' = <<>>
    /\ IF heimdall
       THEN \E x \in ToolRuns :
              LET r == parse_tool(x) IN
              /\ fr' = [NoFrame EXCEPT !.res = IF r.raised THEN <<>> ELSE <<r.parts>>,
                                       !.tmp = r.files]
              /\ IF r.raised
                 THEN Leave(call', "raise", "bridge.download_pit failed")
                 ELSE Leave(call', "list", "")
       ELSE LET f == [NoFrame EXCEPT !.tmp = tmp_made(@, "session.pit"), !.raw = TRUE] IN
            IF session_established
            THEN fr' = f /\ Goto("dp_get")
            ELSE IF dev = None
            THEN fr' = f /\ Goto("ps_fail")
            ELSE /\ fr' = HandshakeFrame(f, DEFAULT_ATTEMPTS, "dp_get", "ps_fail")
                 /\ Goto("hs")
    /\ UNCHANGED <<bridgeVars, catalogVars, envVars, cli, hs_dev>>

\* the session download raised: the finally clause of PitParser.parse
\* removes the temporary file and the exception leaves the call
ParseFailed ==
    /\ pc = "ps_fail"
    /\ fr' = [fr EXCEPT !.tmp = tmp_removed(@, "session.pit", TRUE)]
    /\ Leave(call, "raise", "PIT download failed")
    /\ UNCHANGED <<bridgeVars, catalogVars, envVars, call, cli, wire, reads, tools, hs_dev>>

\* parse_via_heimdall_device(heimdall_bin), heimdall being on the PATH
ParseViaHeimdallDevice ==
    /\ Idle
    /\ heimdall
    /\ \E t \in ToolOutcomes(TRUE), p \in {"ok", "fail"}, printed \in PrintedParses :
        LET r == parse_via_heimdall_device(NoFrame.tmp, t, p, printed) IN
        /\ Enter("parse_via_heimdall_device", "", FALSE, 0)
        /\ fr' = [NoFrame EXCEPT !.res = IF r.raised THEN <<>> ELSE <<r.parts>>,
                                 !.tmp = r.files]
        /\ tools' = <<Ran("download-pit", t = "ok")>>
        /\ IF r.raised
           THEN Leave(call', "raise", "heimdall download-pit failed")
           ELSE Leave(call', "list", "")
    /\ wire' = <<>> /\ reads' = 0
    /\ UNCHANGED <<bridgeVars, catalogVars, envVars, cli, hs_dev>>

(***************************************************************************)
(* Specifications.  Spec: the callers of the bridge manage the connection  *)
(* and exchange packets.  SpecRead: the callers connect, read partitions   *)
(* and disconnect.  SpecModify: the callers connect, detect, write, erase  *)
(* and disconnect, and the command line erases.                            *)
(***************************************************************************)
Next ==
    \/ FindDevice
    \/ OpenAndClaim
    \/ EstablishSession
    \/ HandshakeAttempt
    \/ HandshakeExhausted
    \/ Connect
    \/ EndSession
    \/ Disconnect
    \/ SendPacket
    \/ ReceivePacket
    \/ ReceiveHeader
    \/ ReceivePayload
    \/ Return

Spec == Init /\ [][Next]_vars

Session == Connect \/ HandshakeAttempt \/ HandshakeExhausted \/ Disconnect \/ Return

Detection == DetectLayout \/ DownloadGet \/ DownloadRead \/ DetectFailed

Receive == ReceiveHeader \/ ReceivePayload

NextRead ==
    \/ Session
    \/ Detection
    \/ ReadPartition
    \/ ReadLookup
    \/ ReadSend
    \/ Receive

SpecRead == Init /\ [][NextRead]_vars

\* what a device that never stops answering sends: data up to the largest
\* payload, the completion packet, and a packet of another command
EndlessPackets ==
    { [cmd |-> FILE_TRANSFER, len |-> MaxPayload],
      [cmd |-> FILE_COMPLETE, len |-> 0],
      [cmd |-> SESSION_START, len |-> 0] }

ReceiveHeaderEndless == receive_header(EndlessPackets, TRUE)

ReceivePayloadEndless == receive_payload(TRUE)

\* read_partition against a device that may answer every read for ever.
\* The thread of the call is never suspended for good: a transport read
\* returns bytes or raises when its timeout expires, and the statement after
\* it runs; hence the weak fairness of the two receive steps.  What the
\* device answers is not fair.
NextReadEndless ==
    \/ Session
    \/ Detection
    \/ ReadPartition
    \/ ReadLookup
    \/ ReadSend
    \/ ReceiveHeaderEndless
    \/ ReceivePayloadEndless

SpecReadEndless ==
    /\ Init /\ [][NextReadEndless]_vars
    /\ WF_vars(ReceiveHeaderEndless)
    /\ WF_vars(ReceivePayloadEndless)

NextModify ==
    \/ Session
    \/ DetectPartitionLayout
    \/ Detection
    \/ WritePartition
    \/ WriteLookup
    \/ WriteInfo
    \/ WriteChunk
    \/ ErasePartition
    \/ EraseLookup
    \/ EraseSend
    \/ Receive
    \/ CliErase
    \/ CliConfirm
    \/ CliErased
    \/ CliFinally

SpecModify == Init /\ [][NextModify]_vars

\* the callers connect, run any of the operations that try the external
\* tool first, and disconnect
NextTool ==
    \/ Session
    \/ Detection
    \/ ReadPartition
    \/ ReadLookup
    \/ ReadSend
    \/ WritePartition
    \/ WriteLookup
    \/ WriteInfo
    \/ WriteChunk
    \/ ErasePartition
    \/ EraseLookup
    \/ EraseSend
    \/ RebootDevice
    \/ RebootSend
    \/ DownloadPit
    \/ Receive

SpecTool == Init /\ [][NextTool]_vars

\* the callers of a manager whose bridge holds no device detect the layout,
\* ask the catalog for identifiers and call the parsers
NextCatalog ==
    \/ DetectPartitionLayout
    \/ DetectLayout
    \/ DetectFailed
    \/ Return
    \/ GuessPartitionIdentifier
    \/ GuessReturn
    \/ ParseText
    \/ ParseHeuristic

SpecCatalog == Init /\ [][NextCatalog]_vars

\* the callers connect, call the parser's device strategies and disconnect
NextParse ==
    \/ Session
    \/ Parse
    \/ DownloadGet
    \/ DownloadRead
    \/ ParseFailed
    \/ ParseViaHeimdallDevice

SpecParse == Init /\ [][NextParse]_vars

(***************************************************************************)
(* Properties.                                                             *)
(***************************************************************************)
Returned(op) == pc = "returned" /\ last.op = op

HandshakeFailedText == "Handshake failed (device may not be in Download/Odin mode)"

\* C1: establish_session(n), n >= 1, on a bridge holding a device, writes
\* the host magic at most n times; it returns True, with session_established
\* set, exactly when some attempt read a reply whose first 4 bytes are the
\* reply magic, and that attempt is its last; otherwise all n attempts were
\* made and it raises the handshake error.
C1_EstablishSession ==
    (Returned("establish_session") /\ last.n >= 1 /\ last.exc # "Device not connected")
    => LET k == Len(wire)
           g == fr.replies
       IN  /\ k <= last.n
           /\ \A i \in 1..k : wire[i] = WroteMagic
           /\ Len(g) = k
           /\ (last.ret = "True") <=> (\E i \in 1..k : g[i])
           /\ last.ret = "True" =>
                /\ g[k]
                /\ \A i \in 1..(k - 1) : ~g[i]
                /\ session_established
           /\ last.ret # "True" =>
                /\ last.ret = "raise"
                /\ last.exc = HandshakeFailedText
                /\ k = last.n

\* a correct reply on attempt 2 of 3: success, and no third attempt
C1_Witness ==
    /\ Returned("establish_session")
    /\ last.n = 3
    /\ last.ret = "True"
    /\ Len(wire) = 2
    /\ fr.replies = <<FALSE, TRUE>>

\* C2: session_established only if an establish_session call on the device
\* the bridge holds read a reply prefixed by the reply magic, with no
\* session end written and no disconnect since.
C2_SessionOnHeldDevice ==
    session_established => (dev # None /\ hs_dev = dev)

\* C3: with session_established false, _send_packet and _receive_packet
\* raise the protocol error at once: no transport write, no transport read,
\* no handshake.
C3_PacketsNeedSession ==
    /\ (pc = "returned" /\ last.op \in {"_send_packet", "_receive_packet"}
        /\ ~session_established)
       => /\ last.ret = "raise"
          /\ last.exc = "Session not established"
          /\ wire = <<>>
          /\ reads = 0
    /\ (call.op \in {"_send_packet", "_receive_packet"} /\ pc \notin {"idle", "returned"})
       => session_established

\* a packet refused on a bridge that holds a device but no session
C3_Witness ==
    /\ Returned("_send_packet")
    /\ dev # None /\ out_ep # None
    /\ ~session_established
    /\ last.ret = "raise"

\* the operation's own run of the tool did what was asked
ToolDid == tools # <<>> /\ tools[1].cmd \in {"dump", "flash", "erase"} /\ tools[1].ok

GateText(op) == IF op = "write_partition" THEN WriteGateText ELSE EraseGateText

\* C4: write_partition and erase_partition called with force=false, the
\* tool absent or failing, raise the safety-gate error, and at no point of
\* the call is a handshake magic or a protocol packet written to the
\* transport.
C4_SafetyGate ==
    /\ (call.op \in {"write_partition", "erase_partition"} /\ ~call.force)
       => wire = <<>>
    /\ (pc = "returned" /\ last.op \in {"write_partition", "erase_partition"}
        /\ ~last.force /\ ~ToolDid)
       => /\ last.ret = "raise"
          /\ last.exc = GateText(last.op)

\* a write without force refused after the tool failed, on a bridge whose
\* session would have carried the raw protocol
C4_Witness ==
    /\ Returned("write_partition")
    /\ ~last.force
    /\ tools = <<Ran("flash", FALSE)>>
    /\ session_established
    /\ last.exc = WriteGateText

RECURSIVE Spaces(_)
Spaces(n) == IF n = 0 THEN "" ELSE " " \o Spaces(n - 1)

\* the text is YES with blanks before and after it, and nothing else
PaddedYes(typed) ==
    \E i, j \in 0..Len(typed) : typed = Spaces(i) \o "YES" \o Spaces(j)

\* erase_partition with force=false raises, having run no tool and written
\* no packet, whether or not the tool is installed
EraseWithoutForce ==
    (Returned("erase_partition") /\ ~last.force)
    => /\ last.ret = "raise"
       /\ last.exc = EraseGateText
       /\ tools = <<>>
       /\ wire = <<>>

\* C5 (as amended): erase_partition with force=false raises without running
\* the tool's erase and without writing a packet; the command line calls
\* erase_partition only after the operator typed YES, blanks around it
\* allowed.
C5_EraseConfirmed ==
    /\ EraseWithoutForce
    /\ (cli.stage = "erase" /\ call.op = "erase_partition") => PaddedYes(cli.typed)

\* C5 (as stated): ... the command line calls erase_partition only after
\* the operator typed exactly YES.
C5_EraseTypedExactly ==
    /\ EraseWithoutForce
    /\ (cli.stage = "erase" /\ call.op = "erase_partition") => cli.typed = "YES"

\* the command line has called erase_partition after a padded YES
C5_Witness ==
    /\ pc = "returned"
    /\ cli.stage = "erase"
    /\ last.op = "erase_partition"
    /\ cli.typed = " YES "

\* C6: when the raw-protocol read_partition raises or returns False, no
\* file exists at out_file when control is back with the caller.
C6_NoFileOnFailure ==
    (Returned("read_partition") /\ ~ToolDid /\ last.ret # "True")
    => ~outfile.exists

\* the receive loop of the read ended on a timeout of the transport
ReadTimedOut == Returned("read_partition") /\ fr.rx_cont = "read" /\ fr.ev = "timeout"

\* C7: in the raw-protocol read, a receive timeout with bytes received ends
\* the read with success, the file holding what was received; a timeout
\* with nothing received ends it as a failure; and the read returns success
\* only on a completion packet or on a timeout with bytes received.
C7_ReadTimeout ==
    /\ (ReadTimedOut /\ fr.total_received > 0)
       => /\ last.ret = "True"
          /\ outfile.exists
          /\ outfile.data = fr.rxlog
    /\ (ReadTimedOut /\ fr.total_received = 0) => last.ret # "True"
    /\ (Returned("read_partition") /\ ~ToolDid /\ last.ret = "True")
       => \/ fr.ev = "packet" /\ fr.rx_cmd = FILE_COMPLETE
          \/ fr.ev = "timeout" /\ fr.total_received > 0

\* C8: the raw-protocol read never goes on receiving with a total above
\* the ceiling: the packet that takes the total over it ends the read with
\* the error, the output file removed; so no read returns success with a
\* total above the ceiling.
C8_ReadCeiling ==
    /\ (call.op = "read_partition" /\ pc \in {"rx_hdr", "rx_payload"})
       => fr.total_received <= READ_CEILING
    /\ (Returned("read_partition") /\ fr.total_received > READ_CEILING)
       => /\ last.ret = "raise"
          /\ last.exc = Failed("read_partition")
          /\ ~outfile.exists

\* a read ended by the ceiling
C8_Witness ==
    /\ Returned("read_partition")
    /\ fr.total_received > READ_CEILING
    /\ last.ret = "raise"

\* the write sent its completion packet and waited for the acknowledgment
WriteAwaited ==
    /\ Returned("write_partition")
    /\ fr.rx_cont = "write"
    /\ wire[Len(wire)] = Wrote(FILE_COMPLETE, "empty", 0, 0)

\* C9: after the raw-protocol write sent its completion packet, an
\* acknowledgment with the completion command gives success, a timeout of
\* the wait gives success, a response with another command gives failure.
C9_WriteAck ==
    WriteAwaited
    => /\ (fr.ev = "packet" /\ fr.rx_cmd = FILE_COMPLETE) => last.ret = "True"
       /\ fr.ev = "timeout" => last.ret = "True"
       /\ (fr.ev = "packet" /\ fr.rx_cmd # FILE_COMPLETE) => last.ret = "False"

\* a write whose acknowledgment wait timed out
C9_Witness ==
    /\ WriteAwaited
    /\ fr.ev = "timeout"
    /\ last.ret = "True"

\* C10: the raw-protocol erase returns success only when a response with
\* the completion command was received after the erase request was sent; a
\* timeout of the wait is reported as a failure, never as success.
C10_EraseAck ==
    /\ (Returned("erase_partition") /\ ~ToolDid /\ last.ret = "True")
       => /\ fr.rx_cont = "erase"
          /\ fr.ev = "packet" /\ fr.rx_cmd = FILE_COMPLETE
          /\ wire # <<>>
          /\ wire[Len(wire)] = Wrote(ERASE_PARTITION, "id", fr.partition_id, 0)
    /\ (Returned("erase_partition") /\ fr.rx_cont = "erase" /\ fr.ev = "timeout")
       => last.ret \in {"False", "raise"}

\* an erase whose wait for the completion response timed out
C10_Witness ==
    /\ Returned("erase_partition")
    /\ fr.rx_cont = "erase"
    /\ fr.ev = "timeout"
    /\ last.ret = "False"

\* every way a disconnect of the bridge b may go
DisconnectRuns(b, C, D) ==
    { disconnect(b, C, D, w, release_ok, attach_ok) :
        w \in WriteResults(b.out_ep), release_ok \in BOOLEAN, attach_ok \in BOOLEAN }

\* C13: disconnect raises nothing and leaves the device handle, the
\* interface and both endpoints cleared and detached_kernel and
\* session_established false, whatever the session-end write, the release
\* and the reattachment do; a second disconnect right after it does the
\* same, and touches neither the transport nor the interface.
C13_DisconnectIdempotent ==
    /\ Returned("disconnect") => (last.ret = "None" /\ Bridge = ClearedBridge)
    /\ \A d1 \in DisconnectRuns(Bridge, claimed, detached) :
        /\ d1.b = ClearedBridge
        /\ \A d2 \in DisconnectRuns(d1.b, d1.C, {}) :
            /\ d2.b = ClearedBridge
            /\ d2.C = d1.C
            /\ d2.wire = <<>>
            /\ d2.usb = <<>>

\* a disconnect whose session-end write and release both failed
C13_Witness ==
    /\ Returned("disconnect")
    /\ Len(usb) >= 2
    /\ usb[1].call = "write" /\ ~usb[1].ok
    /\ usb[2].call = "release" /\ ~usb[2].ok
    /\ Bridge = ClearedBridge

\* the entries of the history h that record the call `what'
Calls(h, what) == { i \in 1..Len(h) : h[i].call = what }

\* C14: release is invoked only for an interface this bridge holds
\* claimed, and at most once per call of disconnect.
C14_ReleaseOncePerClaim ==
    /\ \A i \in Calls(usb, "release") : usb[i].mine
    /\ Cardinality(Calls(usb, "release")) <= 1

\* disconnect starts on a bridge that holds a claimed interface
DisconnectsClaimed ==
    /\ pc = "idle" /\ pc' = "returned" /\ call'.op = "disconnect"
    /\ dev # None /\ interface # None /\ dev \in claimed

ToolFirst == { "read_partition", "write_partition", "erase_partition", "reboot_device" }

ToolCmd(op) ==
    CASE op = "read_partition"  -> "dump"
      [] op = "write_partition" -> "flash"
      [] op = "erase_partition" -> "erase"
      [] op = "reboot_device"   -> "reboot"
      [] OTHER                  -> "download-pit"

\* control is at a step of the raw protocol, or the transport was written
OnRawPath ==
    \/ wire # <<>>
    \/ pc \in { "hs", "rd_send", "wr_info", "wr_chunk", "er_send", "rb_send",
                 "dp_get", "dp_read", "rx_hdr", "rx_payload" }

\* C11: when the external tool ran and exited with code 0, read_partition,
\* write_partition, erase_partition and reboot_device return success and
\* nothing was written to the transport; a handshake or a packet of these
\* operations is reached only with the tool absent, or after its run ended
\* otherwise than with exit code 0.
C11_ToolFirst ==
    /\ (pc = "returned" /\ last.op \in ToolFirst
        /\ tools # <<>> /\ tools[1] = Ran(ToolCmd(last.op), TRUE))
       => /\ last.ret = "True"
          /\ wire = <<>>
          /\ reads = 0
    /\ (call.op \in ToolFirst /\ OnRawPath)
       => IF heimdall
          THEN tools # <<>> /\ tools[1] = Ran(ToolCmd(call.op), FALSE)
          ELSE tools = <<>>

\* a write done by the tool on a bridge whose session would have carried
\* the raw protocol
C11_Witness ==
    /\ Returned("write_partition")
    /\ tools = <<Ran("flash", TRUE)>>
    /\ session_established
    /\ last.ret = "True"
    /\ wire = <<>>

\* the operation's own run of the tool ended otherwise than with exit code 0
ToolFailed == tools # <<>> /\ tools[1] = Ran(ToolCmd(last.op), FALSE)

\* C12: when the external tool failed (non-zero exit code, timeout), the
\* operation, download_pit included, goes on to its raw-protocol path or,
\* for a write without force, to the force gate: what the caller gets is
\* never the tool's failure.
C12_ToolFailureAbsorbed ==
    (pc = "returned" /\ last.op \in ToolFirst \cup {"download_pit"} /\ ToolFailed)
    => /\ fr.raw \/ last.exc = WriteGateText
       /\ last.exc \notin {"TimeoutExpired", "OSError"}



\* C16: detect_partition_layout never raises and never returns an empty
\* mapping: when the parsing strategies failed or gave no partition, the
\* mapping is that of the built-in common list; every key is a non-empty
\* lowercase name, the name of its partition.
C16_DetectNeverEmpty ==
    Returned("detect_partition_layout")
    => /\ last.ret = "dict"
       /\ DOMAIN partitions # {}
       /\ \A n \in DOMAIN partitions :
            n # "" /\ Lower(n) = n /\ partitions[n].name = n
       /\ fr.res = << <<>> >>
            => DOMAIN partitions =
                 {"boot", "recovery", "system", "userdata", "cache", "modem"}

\* the download over the protocol was tried and failed, and the common list
\* was substituted
C16_Witness ==
    /\ Returned("detect_partition_layout")
    /\ ~heimdall
    /\ wire # <<>>
    /\ fr.res = << <<>> >>
    /\ "recovery" \in DOMAIN partitions

\* C17: guess_partition_identifier returns the id of the catalog entry of
\* the name when there is one and it carries an id, else the static table's
\* id of the lowercased name when it is a well-known name (radio: 6, as
\* modem), else 0xFFFFFFFF; and it never returns 0.
C17_GuessIdentifier ==
    Returned("guess_partition_identifier")
    => LET n == Lower(last.name) IN
       /\ last.n = IF n \in DOMAIN partitions /\ partitions[n].id # <<>>
                   THEN partitions[n].id[1]
                   ELSE IF n \in DOMAIN common_map THEN common_map[n]
                   ELSE UNKNOWN_ID
       /\ common_map["radio"] = 6 /\ common_map["modem"] = 6
       /\ last.n # 0

\* C18: _parse_text of a well-formed tool output of k >= 1 records, each a
\* marker line followed by its Name, Size and Identifier lines, returns
\* exactly k partitions, in order, each with the lowercased name, the size
\* and the identifier its record declares.
C18_ParseTextRecords ==
    Returned("_parse_text")
    => LET recs == fr.arg.recs IN
       fr.res[1] = [ i \in 1..Len(recs) |->
                       [ name   |-> Lower(recs[i].name),
                         length |-> <<recs[i].size.val>>,
                         id     |-> <<recs[i].id.val>> ] ]

\* the blob has the bytes `word' at offset i (from 0); boot\0 is
\* common_patterns[1][1]
HasAt(blob, i, word) ==
    /\ i >= 0
    /\ i + Len(word) <= Len(blob)
    /\ SubSeq(blob, i + 1, i + Len(word)) = word

\* C19: of PIT bytes in which the zero-terminated token boot is followed
\* within 256 bytes by the little-endian 32-bit value 0x02000000, wherever
\* they sit, parse_heuristic returns a partition named boot whose length is
\* 0x02000000.
C19_HeuristicBootSize ==
    ( /\ Returned("parse_heuristic")
      /\ \E i \in 0..Len(fr.arg) :
            /\ HasAt(fr.arg, i, common_patterns[1][1])
            /\ \E j \in (i + 5)..(i + 256) : HasAt(fr.arg, j, SizeBytes) )
    => \E k \in 1..Len(fr.res[1]) :
            /\ fr.res[1][k].name = "boot"
            /\ fr.res[1][k].length = <<33554432>>

\* C20: parse_heuristic never returns a partition named by one of the
\* structural noise tokens pit, samsung, android, partition, table, header,
\* bootloader, odinfw.
C20_HeuristicNoNoise ==
    Returned("parse_heuristic")
    => \A k \in 1..Len(fr.res[1]) :
         fr.res[1][k].name \notin { "pit", "samsung", "android", "partition",
                                    "table", "header", "bootloader", "odinfw" }

\* the zero-terminated tokens of a blob: its runs of 3 to 32 bytes of
\* [A-Za-z0-9_-] that a zero byte ends and no such byte precedes
Tokens(blob) ==
    { SubSeq(blob, i, e - 1) :
        <<i, e>> \in { x \in (1..Len(blob)) \X (1..Len(blob)) :
                        /\ x[2] - x[1] >= 3 /\ x[2] - x[1] <= 32
                        /\ blob[x[2]] = 0
                        /\ x[1] = 1 \/ blob[x[1] - 1] \notin TokenBytes
                        /\ \A j \in x[1]..(x[2] - 1) : blob[j] \in TokenBytes } }

\* C21: parse_heuristic returns, for each distinct zero-terminated token of
\* 3 to 32 characters of [A-Za-z0-9_-] that is not a noise token, one
\* partition under the token's lowercased name, and no two partitions it
\* returns share a name.
C21_HeuristicTokens ==
    Returned("parse_heuristic")
    => LET parts == fr.res[1]
           named(n) == { k \in 1..Len(parts) : parts[k].name = n }
       IN  /\ \A t \in Tokens(fr.arg) :
                LET n == Lower(Decode(t)) IN
                n \notin { "pit", "samsung", "android", "partition",
                           "table", "header", "bootloader", "odinfw" }
                => Cardinality(named(n)) = 1
           /\ \A k \in 1..Len(parts) : Cardinality(named(parts[k].name)) = 1

\* a blob with the token twice, in two cases, and a token that is also a
\* common name: one partition each
C21_Witness ==
    /\ Returned("parse_heuristic")
    /\ Cardinality(Tokens(fr.arg)) = 2
    /\ { Lower(Decode(t)) : t \in Tokens(fr.arg) } = {"oem"}
    /\ Len(fr.res[1]) = 1
    /\ fr.res[1][1].name = "oem"

\* C22: when parse_via_heimdall_device or PitParser.parse with a bridge
\* returns or raises, none of the temporary PIT files the call made is
\* left, whether the downloads and the parsing succeeded or failed.
C22_TempFilesRemoved ==
    (pc = "returned" /\ last.op \in {"parse", "parse_via_heimdall_device"})
    => fr.tmp.left = {}

\* a parse in which the device strategy and then the session strategy
\* raised, each after making its file; and one whose download over the
\* protocol raised after the handshake
C22_Witness ==
    /\ Returned("parse")
    /\ last.ret = "raise"
    /\ \/ fr.tmp.made = {"device.pit", "session.pit"}
       \/ fr.tmp.made = {"session.pit"} /\ wire # <<>>

\* C23: after disconnect the catalog's mapping is empty and its
\* layout-detected flag is false, so that the partitions detected on one
\* device do not resolve names on the next connection.
C23_CatalogDiscarded ==
    Returned("disconnect") => (DOMAIN partitions = {} /\ ~layout_detected)

\* C24: once detect_partition_layout has returned, a later call of it, made
\* directly or by a lookup of a name, answers from the cached mapping: the
\* mapping and the flag stay as they are, and the call runs no tool and
\* puts nothing on the transport; detection runs again only on an empty
\* mapping.  (The command line's process ends with its bridge and catalog.)
C24_DetectionCached ==
    [][ \/ cli.stage = "finally"
        \/ /\ layout_detected => (partitions' = partitions /\ layout_detected')
           /\ (pc = "dt" /\ layout_detected /\ DOMAIN partitions # {})
                => /\ tools' = tools /\ wire' = wire /\ reads' = reads
                   /\ pc' \in {"returned", fr.dt_cont}
           /\ (pc = "dt" /\ pc' \in {"hs", "dp_get", "dt_fail"})
                => DOMAIN partitions = {}
           /\ partitions' # partitions => DOMAIN partitions = {}
      ]_vars

\* a second detect_partition_layout on a bridge with a session and no tool:
\* it returned the cached mapping and wrote nothing
C24_Witness ==
    /\ Returned("detect_partition_layout")
    /\ ~heimdall /\ session_established
    /\ fr.res = <<>>
    /\ wire = <<>>
    /\ DOMAIN partitions # {}

\* C25: _end_session writes the single-byte session-end command exactly
\* when session_established is true, and nothing else; it never raises;
\* when the write goes through session_established is cleared and it
\* returns True, and when the transport fails it returns False, the flag
\* left as it was.
C25_EndSession ==
    [][ (pc = "idle" /\ call'.op = "_end_session")
        => /\ wire' = IF session_established
                      THEN <<Wrote(SESSION_END, "byte", 0, 0)>> ELSE <<>>
           /\ pc' = "returned" /\ last'.ret \in {"True", "False"}
           /\ ~session_established => last'.ret = "True"
           /\ last'.ret = "True" => ~session_established'
           /\ last'.ret = "False" => session_established'
           /\ UNCHANGED <<dev, interface, in_ep, out_ep, detached_kernel, claimed>>
      ]_vars

\* the write of the session-end command failed: False is returned and the
\* session stays
C25_Witness ==
    /\ Returned("_end_session")
    /\ last.ret = "False"
    /\ session_established
    /\ wire = <<Wrote(SESSION_END, "byte", 0, 0)>>

\* the packets _send_packet wrote in the call: the handshake's magic and the
\* GET_PIT request of a layout detection, written directly before the
\* write begins, are left out
PacketsWritten == SelectSeq(wire, LAMBDA w : w.cmd \notin {0, GET_PIT})

\* C26: on the raw-protocol write path the packets written are, in order,
\* one partition-info packet with the resolved identifier and the file's
\* size, then file-transfer packets of at most 128 KiB each that follow one
\* another through the file, then, the whole file sent in at least one
\* packet, one file-complete packet; the acknowledgment is read only after
\* the file-complete packet; the length field of each packet is the length
\* of its payload (8 bytes, the chunk's bytes, 0).
C26_WriteSequence ==
    (call.op = "write_partition" /\ fr.raw)
    => LET ps == PacketsWritten
           n  == Len(ps)
           complete == n >= 3 /\ ps[n].cmd = FILE_COMPLETE
           m  == IF complete THEN n - 1 ELSE n
           size == fr.file_size
       IN  /\ n >= 1 =>
                /\ ps[1] = Wrote(PARTITION_INFO, "info",
                                 guess_partition_identifier(partitions, call.name), size)
                /\ header_length(ps[1]) = 8
           /\ \A i \in 2..m :
                /\ ps[i].cmd = FILE_TRANSFER /\ ps[i].tag = "data"
                /\ ps[i].b >= 1 /\ ps[i].b <= 128
                /\ ps[i].a = IF i = 2 THEN 0 ELSE ps[i - 1].a + ps[i - 1].b
                /\ ps[i].a + ps[i].b <= size
                /\ header_length(ps[i]) = ps[i].b * 1024
           /\ complete =>
                /\ ps[n] = Wrote(FILE_COMPLETE, "empty", 0, 0)
                /\ header_length(ps[n]) = 0
                /\ ps[m].a + ps[m].b = size
           /\ (fr.rx_cont = "write" \/ reads > 0 \/ (pc = "returned" /\ last.ret # "raise"))
                => complete

\* a file of two chunks was sent and the acknowledgment came
C26_Witness ==
    /\ Returned("write_partition")
    /\ fr.raw /\ last.ret = "True"
    /\ Len(PacketsWritten) = 4
    /\ PacketsWritten[3].b = 1
    /\ reads > 0

NameUnknown ==
    /\ Lower(call.name) \notin DOMAIN partitions
    /\ Lower(call.name) \notin DOMAIN common_map

\* a forced write or erase is on its raw path, past the lookup of a name
\* that no table knows (for a write: the input file exists and is not empty)
ForcedUnknown ==
    /\ call.op \in {"write_partition", "erase_partition"}
    /\ call.force /\ fr.raw
    /\ call.op = "write_partition" => fr.file_size > 0
    /\ DOMAIN partitions # {} /\ NameUnknown
    /\ pc \in {"wr_lookup", "wr_info", "wr_chunk", "er_lookup", "er_send",
               "hs", "rx_hdr", "rx_payload", "returned"}

\* the partition-info / erase-request packets written in the call
IdPackets == SelectSeq(wire, LAMBDA w : w.cmd \in {PARTITION_INFO, ERASE_PARTITION})

\* C28: with force, on the raw path, write_partition and erase_partition for
\* a name that is neither in the catalog nor in the static table do not fail
\* locally on the name: once the session stands they send their
\* partition-info / erase-request packet with the identifier 0xFFFFFFFF, and
\* they return only after waiting for the device's response, True on a
\* completion packet and False on another packet.
C28_UnknownNameSent ==
    ForcedUnknown
    => /\ \A i \in 1..Len(IdPackets) :
            /\ IdPackets[i].a = UNKNOWN_ID
            /\ IdPackets[i].cmd = IF call.op = "write_partition"
                                  THEN PARTITION_INFO ELSE ERASE_PARTITION
       /\ Len(IdPackets) <= 1
       /\ pc = "returned"
          => /\ last.exc \in {"", "Device not connected", Failed(call.op),
                             "Handshake failed (device may not be in Download/Odin mode)"}
             /\ session_established => Len(IdPackets) = 1
             /\ last.ret # "raise"
                => /\ fr.rx_cont = (IF call.op = "write_partition" THEN "write" ELSE "erase")
                   /\ fr.ev # ""
                   /\ fr.ev = "packet"
                      => (last.ret = "True" <=> fr.rx_cmd = FILE_COMPLETE)

\* an erase and a write of an unknown name, answered by the device
C28_Witness ==
    /\ ForcedUnknown /\ pc = "returned"
    /\ call.op = "erase_partition"
    /\ last.ret = "True"
    /\ IdPackets = <<Wrote(ERASE_PARTITION, "id", UNKNOWN_ID, 0)>>

\* control of a raw-protocol read_partition is in its receive loop
Receiving == call.op = "read_partition" /\ pc \in {"rx_hdr", "rx_payload"}

\* C29: every raw-protocol read_partition call terminates: whenever each
\* transport read returns bytes or times out, the receive loop ends (by a
\* completion packet, a timeout or the 16 GiB ceiling), also when the device
\* keeps sending packets of another command or answers a payload read with
\* zero bytes.
C29_ReadTerminates == Receiving ~> (pc = "returned")

\* C30: in establish_session, between any two consecutive handshake
\* attempts the inter-attempt delay is taken, whether the earlier attempt
\* failed by a transport error or timeout or by a reply that does not start
\* with the expected magic.
C30_DelayBetweenAttempts ==
    [][ (pc = "hs" /\ pc' = "hs" /\ fr'.attempt = fr.attempt + 1
         /\ fr'.attempt < fr'.attempts)
        => fr'.sleeps = fr.sleeps + 1
      ]_vars

\* C31: the raw-protocol write reports success only when the acknowledgment
\* was the completion command or the wait for it timed out: a header shorter
\* than 5 bytes or a transport failure other than a timeout does not give
\* success.
C31_WriteSuccessOnlyAcked ==
    (WriteAwaited /\ last.ret = "True")
    => \/ fr.ev = "packet" /\ fr.rx_cmd = FILE_COMPLETE
       \/ fr.ev = "timeout"

\* C32: when find_device returns false, the bridge is left as it was before
\* the call: no device handle, interface or endpoint of a probed and
\* rejected device is retained (so that a following disconnect has nothing
\* to release).
C32_FindDeviceFrame ==
    [][ (pc = "idle" /\ pc' = "returned" /\ call'.op = "find_device"
         /\ last'.ret = "False")
        => /\ dev' = dev /\ interface' = interface
           /\ in_ep' = in_ep /\ out_ep' = out_ep
      ]_vars

\* C33: whenever establish_session raises, session_established is false
\* afterwards, also when it was called on a bridge whose session was already
\* established.
C33_FailedHandshakeNoSession ==
    (Returned("establish_session") /\ last.ret = "raise") => ~session_established

=========================================================================
